---- MODULE Spec2Model ----
(***************************************************************************)
(* A model of the ai-dev CLI: the stack detector (utils/detector.ts), the  *)
(* init, add and sync commands, and the file system they act on.           *)
(***************************************************************************)
EXTENDS Integers, Sequences, FiniteSets, TLC

VARIABLES
    fs,      \* the file system: path (tuple of names) -> node
    last,    \* what the last command was and what it reported
    ncmds,   \* number of commands run so far
    probe,   \* the directory handed to detectStack (detector specification)
    det,     \* the value detectStack returned for it
    installed, \* which installation of the package the commands run from
    conv,    \* the markdown handed to the format converter, and its output
    tg       \* the configuration send-telegram.sh runs with, and what it resolved

vars == <<fs, last, ncmds, probe, det, installed, conv, tg>>

---------------------------------------------------------------------------
(* Bounds                                                                  *)

\* Largest number of dependency entries in the manifests of a probed directory.
MaxDeps == 2

\* Largest number of commands in one run of the command specification.
MaxCmds == 3

\* Largest number of lines of a markdown file handed to the format converter.
MaxLines == 3

---------------------------------------------------------------------------
(* Names and strings                                                       *)

\* The characters of a file name. A run of characters the code never looks
\* into (the stem of a name) is kept as one token; the characters of the
\* extensions the code tests for are kept apart.
Chars(name) ==
    CASE name = "App.tsx"       -> <<"App", ".", "t", "s", "x">>
      [] name = "index.php"     -> <<"index", ".", "p", "h", "p">>
      [] name = "notes.txt"     -> <<"notes", ".", "t", "x", "t">>
      [] name = "composer.json" -> <<"composer", ".", "j", "s", "o", "n">>
      [] name = "package.json"  -> <<"package", ".", "j", "s", "o", "n">>
      [] name = "opencode.json" -> <<"opencode", ".", "j", "s", "o", "n">>
      [] name = "AGENTS.md"     -> <<"AGENTS", ".", "m", "d">>
      [] name = "CLAUDE.md"     -> <<"CLAUDE", ".", "m", "d">>
      [] name = "README.md"     -> <<"README", ".", "m", "d">>
      [] name = "SKILL.md"      -> <<"SKILL", ".", "m", "d">>
      [] name = "index.md"      -> <<"index", ".", "m", "d">>
      [] name = "oracle.md"     -> <<"oracle", ".", "m", "d">>
      [] name = "draft.md"      -> <<"draft", ".", "m", "d">>
      [] name = "debug.md"      -> <<"debug", ".", "m", "d">>
      [] name = "deploy.md"     -> <<"deploy", ".", "m", "d">>
      [] name = "wip.md"        -> <<"wip", ".", "m", "d">>
      [] name = "hook.md"       -> <<"hook", ".", "m", "d">>
      [] name = "laravel.md"    -> <<"laravel", ".", "m", "d">>
      [] name = "express.md"    -> <<"express", ".", "m", "d">>
      [] name = "ai-dev-hooks.ts" -> <<"ai-dev-hooks", ".", "t", "s">>
      [] name = ".ai"           -> <<".", "ai">>
      [] name = ".claude"       -> <<".", "claude">>
      [] name = ".cursor"       -> <<".", "cursor">>
      [] name = ".opencode"     -> <<".", "opencode">>
      [] name = ".agent"        -> <<".", "agent">>
      [] OTHER                  -> <<name>>

\* String.prototype.endsWith
EndsWith(name, suffix) ==
    LET n == Chars(name)
        s == suffix
    IN  /\ Len(s) <= Len(n)
        /\ SubSeq(n, Len(n) - Len(s) + 1, Len(n)) = s

\* String.prototype.replace(pattern, ''): the first occurrence is removed.
RemoveFirst(cs, pat) ==
    LET at == {i \in 1..(Len(cs) - Len(pat) + 1) : SubSeq(cs, i, i + Len(pat) - 1) = pat}
    IN  IF at = {} THEN cs
        ELSE LET i == CHOOSE k \in at : \A l \in at : k <= l
             IN  SubSeq(cs, 1, i - 1) \o SubSeq(cs, i + Len(pat), Len(cs))

DotTsx == <<".", "t", "s", "x">>
DotPhp == <<".", "p", "h", "p">>
DotMd  == <<".", "m", "d">>

---------------------------------------------------------------------------
(* JSON manifests                                                          *)

\* The stacks the package ships.
AVAILABLE_STACKS == {"react-typescript", "php-laravel", "node-express"}

\* detectStack's "stack: null".
NullStack == "null"

\* A parsed JSON document is one of
\*   [k |-> "malformed"]           the text does not parse (readJson throws)
\*   [k |-> "null"]                the JSON value null
\*   [k |-> "scalar"]              a number, string or boolean
\*   [k |-> "array"]               an array
\*   [k |-> "object", f |-> flds]  an object; flds maps a field name to a
\*                                  dependency map (name -> version string)
EmptyMap == [n \in {} |-> ""]

\* obj[field] for a parsed, non-null value; undefined is the empty map under
\* the spread operator, which is the only use the detector makes of it.
Spread(json, field) ==
    IF json.k = "object" /\ field \in DOMAIN json.f THEN json.f[field] ELSE EmptyMap

\* The spread with its operands in the other order: { ...b, ...a }
MergeFirstWins(a, b) ==
    [n \in DOMAIN a \cup DOMAIN b |-> IF n \in DOMAIN a THEN a[n] ELSE b[n]]

\* { ...a, ...b }
Merge(a, b) ==
    [n \in DOMAIN a \cup DOMAIN b |-> IF n \in DOMAIN b THEN b[n] ELSE a[n]]

\* if (deps[name]): the key is present and its value is a non-empty string.
Truthy(deps, name) == name \in DOMAIN deps /\ deps[name] # ""

---------------------------------------------------------------------------
(* utils/paths.ts and utils/detector.ts                                    *)

\* A manifest as the detector sees it:
\*   [k |-> "absent"]              no such path
\*   [k |-> "dir"]                 the path exists but is not a regular file
\*   [k |-> "file", json |-> J]    a regular file whose text parses to J
fileExists(m) == m.k = "file"

Ret(stack, confidence, reason) ==
    [kind |-> "return", stack |-> stack, confidence |-> confidence, reason |-> reason]
Fallthrough == [kind |-> "fallthrough"]
Thrown == [kind |-> "throw"]

\* fs.readJson followed by the first property access on the parsed value:
\* a text that does not parse throws, and so does reading a property of null.
readJsonThrows(json) == json.k \in {"malformed", "null"}

\* The body of the first try block: the Laravel rule.
composerTry(d) ==
    LET composer == d.composer.json
        deps == Merge(Spread(composer, "require"), Spread(composer, "require-dev"))
    IN  IF readJsonThrows(composer) THEN Thrown
        ELSE IF Truthy(deps, "laravel/framework")
             THEN Ret("php-laravel", "high", "Found laravel/framework in composer.json")
             ELSE Fallthrough

\* The same block with its catch clause missing (a variant used to test the
\* properties below).
composerNoCatch(d) ==
    IF fileExists(d.composer) THEN composerTry(d) ELSE Fallthrough

\* if (await fileExists(composerPath)) { try { ... } catch { } }
checkComposer(d) ==
    IF fileExists(d.composer)
    THEN LET r == composerTry(d) IN IF r.kind = "throw" THEN Fallthrough ELSE r
    ELSE Fallthrough

\* The rules of the second try block with Express tested before React.
packageTryExpressFirst(d) ==
    LET pkg == d.package.json
        deps == Merge(Spread(pkg, "dependencies"), Spread(pkg, "devDependencies"))
    IN  IF readJsonThrows(pkg) THEN Thrown
        ELSE IF Truthy(deps, "express")
             THEN Ret("node-express", "high", "Found express in package.json")
        ELSE IF Truthy(deps, "react") \/ Truthy(deps, "react-dom")
             THEN Ret("react-typescript", "high", "Found react in package.json")
        ELSE IF Truthy(deps, "typescript")
             THEN Ret("react-typescript", "low", "Found typescript but no specific framework")
        ELSE Fallthrough

\* The body of the second try block: the React, Express and TypeScript rules.
packageTry(d) ==
    LET pkg == d.package.json
        deps == Merge(Spread(pkg, "dependencies"), Spread(pkg, "devDependencies"))
    IN  IF readJsonThrows(pkg) THEN Thrown
        ELSE IF Truthy(deps, "react") \/ Truthy(deps, "react-dom")
             THEN Ret("react-typescript", "high", "Found react in package.json")
        ELSE IF Truthy(deps, "express")
             THEN Ret("node-express", "high", "Found express in package.json")
        ELSE IF Truthy(deps, "typescript")
             THEN Ret("react-typescript", "low", "Found typescript but no specific framework")
        ELSE Fallthrough

\* if (await fileExists(packagePath)) { try { ... } catch { } }
checkPackage(d) ==
    IF fileExists(d.package)
    THEN LET r == packageTry(d) IN IF r.kind = "throw" THEN Fallthrough ELSE r
    ELSE Fallthrough

\* The fallback with the readdir rejection left unhandled.
checkExtensionsNoCatch(d) ==
    IF ~d.listing.ok THEN Thrown
    ELSE IF \E f \in d.listing.names : EndsWith(f, DotTsx)
         THEN Ret("react-typescript", "medium", "Found .tsx files in project root")
    ELSE IF \E f \in d.listing.names : EndsWith(f, DotPhp)
         THEN Ret("php-laravel", "low", "Found .php files (assuming Laravel)")
    ELSE Ret(NullStack, "low", "Could not detect stack")

\* The fallback that reports a stack whenever the listing has any entry.
checkExtensionsAnyFile(d) ==
    LET files == IF d.listing.ok THEN d.listing.names ELSE {}
    IN  IF files # {}
        THEN Ret("react-typescript", "medium", "Found .tsx files in project root")
        ELSE Ret(NullStack, "low", "Could not detect stack")

\* const files = await fs.readdir(resolvedDir).catch(() => []); hasTsx; hasPhp
checkExtensions(d) ==
    LET files == IF d.listing.ok THEN d.listing.names ELSE {}
        hasTsx == \E f \in files : EndsWith(f, DotTsx)
        hasPhp == \E f \in files : EndsWith(f, DotPhp)
    IN  IF hasTsx
        THEN Ret("react-typescript", "medium", "Found .tsx files in project root")
        ELSE IF hasPhp
        THEN Ret("php-laravel", "low", "Found .php files (assuming Laravel)")
        ELSE Ret(NullStack, "low", "Could not detect stack")

detectStack(d) ==
    LET c == checkComposer(d)
        p == checkPackage(d)
    IN  IF c.kind # "fallthrough" THEN c
        ELSE IF p.kind # "fallthrough" THEN p
        ELSE checkExtensions(d)

\* isValidStack that accepts every name given.
isValidStackAnyName(stack) == stack # ""

\* AVAILABLE_STACKS.includes(stack)
isValidStack(stack) == stack \in AVAILABLE_STACKS

\* No directory probed yet, nothing detected yet.
\* No markdown handed to the format converter yet.
NoConversion == [kind |-> "none"]
\* send-telegram.sh not configured yet.
NoNotification == [k |-> "none"]

NoProbe == [k |-> "none"]
NoDetection == [kind |-> "none"]

---------------------------------------------------------------------------
(* The file system                                                         *)

\* A path is a tuple of names; fs maps every existing path to its node.
\* A node is a directory or a regular file with a content; a content is a
\* text, [k |-> "text", s |-> sequence of characters], or a JSON document.
DirNode == [t |-> "dir"]
FileNode(c) == [t |-> "file", c |-> c]
Text(s) == [k |-> "text", s |-> s]

\* path.join(p, name)
Join(p, name) == Append(p, name)
\* path.dirname
Dirname(p) == SubSeq(p, 1, Len(p) - 1)
\* path.basename
Basename(p) == p[Len(p)]

IsPrefix(p, q) == Len(p) <= Len(q) /\ SubSeq(q, 1, Len(p)) = p

\* fs.existsSync
Exists(f, p) == p \in DOMAIN f
IsDir(f, p) == p \in DOMAIN f /\ f[p].t = "dir"
IsFile(f, p) == p \in DOMAIN f /\ f[p].t = "file"

\* The names of the entries of directory p.
ChildNames(f, p) == {Basename(q) : q \in {r \in DOMAIN f : Len(r) = Len(p) + 1 /\ IsPrefix(p, r)}}

\* The file system with node n at path p.
Put(f, p, n) == [q \in DOMAIN f \cup {p} |-> IF q = p THEN n ELSE f[q]]

\* The proper and improper prefixes of p.
Prefixes(p) == {SubSeq(p, 1, i) : i \in 1..Len(p)}

\* mkdir with { recursive: true } fails when p or an ancestor is a file.
CanMkdir(f, p) == \A q \in Prefixes(p) : ~IsFile(f, q)
MkdirP(f, p) ==
    [q \in DOMAIN f \cup Prefixes(p) |-> IF q \in DOMAIN f THEN f[q] ELSE DirNode]

\* A file can be written where the parent is a directory and the path is
\* not itself a directory.
CanWrite(f, p) == IsDir(f, Dirname(p)) /\ ~IsDir(f, p)

\* The order in which a directory lists its entries.
NameOrder ==
    <<".agent", ".ai", ".claude", ".cursor", ".opencode", "AGENTS.md", "App.tsx", "CLAUDE.md",
      "README.md", "SKILL.md", "agent", "agents", "ai-dev-hooks.ts", "command",
      "commands", "composer.json", "context", "debug", "debug.md", "deploy", "deploy.md",
      "draft.md", "express.md", "hook", "hook.md", "index.md", "index.php", "laravel.md",
      "node-express", "notes.txt", "opencode.json", "oracle", "oracle.md", "package.json",
      "php-laravel", "pkg", "plugin", "proj", "react-typescript", "skill", "skills",
      "stacks", "standards", "wip", "wip.md", "workflows">>

Names == {NameOrder[i] : i \in 1..Len(NameOrder)}

\* The name with the given characters.
NameOf(cs) == CHOOSE n \in Names : Chars(n) = cs

\* fs.readdirSync of a directory whose entries are the set S.
Listing(S) ==
    LET Listed(n) == n \in S
    IN  SelectSeq(NameOrder, Listed)

\* The directory at path dir as detectStack sees it.
DirViewOf(f, dir) ==
    LET manifest(p) ==
            IF ~Exists(f, p) THEN [k |-> "absent"]
            ELSE IF IsDir(f, p) THEN [k |-> "dir"]
            ELSE [k |-> "file",
                  json |-> IF f[p].c.k = "text" THEN [k |-> "malformed"] ELSE f[p].c]
    IN  [composer |-> manifest(Join(dir, "composer.json")),
         package |-> manifest(Join(dir, "package.json")),
         listing |-> [ok |-> IsDir(f, dir),
                      names |-> IF IsDir(f, dir) THEN ChildNames(f, dir) ELSE {}]]

---------------------------------------------------------------------------
(* Regular expressions of the format converter                             *)

IsSpace(c) == c \in {" ", "\n", "\t"}

\* The number of whitespace characters of s from position i on.
RECURSIVE SpaceRun(_, _)
SpaceRun(s, i) ==
    IF i <= Len(s) /\ IsSpace(s[i]) THEN 1 + SpaceRun(s, i + 1) ELSE 0

\* The last position of the line that holds position i.
RECURSIVE LineEnd(_, _)
LineEnd(s, i) ==
    IF i < Len(s) /\ s[i + 1] # "\n" THEN LineEnd(s, i + 1) ELSE i

\* Where the group (.+) starts when /^<mark>\s{min,}(.+)$/m matches at
\* position i, and 0 when it does not match there: the whitespace is
\* matched greedily and given back until a character other than a line
\* break follows.
GroupStart(s, i, mark, min) ==
    IF ~(i <= Len(s) /\ s[i] = mark /\ (i = 1 \/ s[i - 1] = "\n")) THEN 0
    ELSE LET run == SpaceRun(s, i + 1)
             ks == {k \in min..run : i + 1 + k <= Len(s) /\ s[i + 1 + k] # "\n"}
         IN  IF ks = {} THEN 0
             ELSE i + 1 + (CHOOSE k \in ks : \A j \in ks : j <= k)

\* The same with the rightmost match in place of the leftmost.
MatchLastLine(s, mark, min) ==
    LET starts == {i \in 1..Len(s) : GroupStart(s, i, mark, min) # 0}
    IN  IF starts = {} THEN <<>>
        ELSE LET i == CHOOSE j \in starts : \A l \in starts : j >= l
                 g == GroupStart(s, i, mark, min)
             IN  SubSeq(s, g, LineEnd(s, g))

\* content.match(/^<mark>\s{min,}(.+)$/m): the text of group 1 of the
\* leftmost match, or <<>> when there is no match (a match is never empty).
MatchLine(s, mark, min) ==
    LET starts == {i \in 1..Len(s) : GroupStart(s, i, mark, min) # 0}
    IN  IF starts = {} THEN <<>>
        ELSE LET i == CHOOSE j \in starts : \A l \in starts : j <= l
                 g == GroupStart(s, i, mark, min)
             IN  SubSeq(s, g, LineEnd(s, g))

\* content.match(/^#\s+(.+)$/m)
titleMatch(s) == MatchLine(s, "#", 1)
\* content.match(/^>\s*(.+)$/m)
descMatch(s) == MatchLine(s, ">", 0)

---------------------------------------------------------------------------
(* Running a command: the file system, whether an exception is in flight,  *)
(* and the paths written so far                                            *)

Start(f) == [fs |-> f, ok |-> TRUE, log |-> <<>>]

\* const x = v; followed by the statements F(x): v is computed once, and F
\* is given its value.
Bind(v, F(_)) == CHOOSE r \in {F(x) : x \in {v}} : TRUE
Throw(st) == [st EXCEPT !.ok = FALSE]

\* fs.mkdirSync(p, { recursive: true })
mkdirSync(st, p) ==
    IF ~st.ok THEN st
    ELSE IF ~CanMkdir(st.fs, p) THEN Throw(st)
    ELSE [st EXCEPT !.fs = MkdirP(st.fs, p)]

\* fs.appendFileSync in place of fs.writeFileSync: an existing text grows.
appendFileSync(st, p, c) ==
    IF ~st.ok THEN st
    ELSE IF ~CanWrite(st.fs, p) THEN Throw(st)
    ELSE LET old == IF IsFile(st.fs, p) /\ st.fs[p].c.k = "text" THEN st.fs[p].c.s ELSE <<>>
         IN  [st EXCEPT !.fs = Put(st.fs, p, FileNode(Text(old \o c.s))),
                        !.log = Append(st.log, p)]

\* fs.writeFileSync(p, c)
writeFileSync(st, p, c) ==
    IF ~st.ok THEN st
    ELSE IF ~CanWrite(st.fs, p) THEN Throw(st)
    ELSE [st EXCEPT !.fs = Put(st.fs, p, FileNode(c)), !.log = Append(st.log, p)]

\* The characters fs.readFileSync(p, 'utf-8') returns for a regular file.
ReadText(f, p) == IF f[p].c.k = "text" THEN f[p].c.s ELSE <<"{json}">>

\* The entries of directory p that are directories, in listing order.
SubDirs(f, p) ==
    LET IsSub(n) == IsDir(f, Join(p, n))
    IN  SelectSeq(Listing(ChildNames(f, p)), IsSub)

---------------------------------------------------------------------------
(* commands/sync.ts                                                        *)

\* getSourceAiDir(): the .ai directory of the package.
PkgRoot == <<"pkg">>
getSourceAiDir == Join(PkgRoot, ".ai")

\* The converted skill file with a description default built from the
\* folder name whatever the heading is.
SkillDocumentNameDefault(skillName, content) ==
    LET d == descMatch(content)
        description == IF d # <<>> THEN d ELSE Chars(skillName) \o <<" skill">>
    IN  Text(<<"---\nname: ">> \o Chars(skillName) \o <<"\ndescription: ">> \o description
             \o <<"\nlicense: MIT\ncompatibility: opencode\nmetadata:\n  source: ai-dev-system\n---\n\n">>
             \o content \o <<"\n">>)

\* The converted skill file with the lines of a source that begins with a
\* --- line left out up to the next --- line.
SkillDocumentWithoutSourceHeader(skillName, content) ==
    LET t == titleMatch(content)
        d == descMatch(content)
        title == IF t # <<>> THEN t ELSE Chars(skillName)
        description == IF d # <<>> THEN d ELSE title \o <<" skill">>
        dashes == <<"-", "-", "-">>
        closes == {i \in 4..(Len(content) - 3) :
                      content[i] = "\n" /\ SubSeq(content, i + 1, i + 3) = dashes}
        body == IF Len(content) >= 7 /\ SubSeq(content, 1, 3) = dashes /\ closes # {}
                THEN SubSeq(content, (CHOOSE i \in closes : \A j \in closes : i <= j) + 4,
                            Len(content))
                ELSE content
    IN  Text(<<"---\nname: ">> \o Chars(skillName) \o <<"\ndescription: ">> \o description
             \o <<"\nlicense: MIT\ncompatibility: opencode\nmetadata:\n  source: ai-dev-system\n---\n\n">>
             \o body \o <<"\n">>)

\* The converted skill file with the heading, when there is one, as its name.
SkillDocumentTitleName(skillName, content) ==
    LET t == titleMatch(content)
        d == descMatch(content)
        title == IF t # <<>> THEN t ELSE Chars(skillName)
        description == IF d # <<>> THEN d ELSE title \o <<" skill">>
    IN  Text(<<"---\nname: ">> \o title \o <<"\ndescription: ">> \o description
             \o <<"\nlicense: MIT\ncompatibility: opencode\nmetadata:\n  source: ai-dev-system\n---\n\n">>
             \o content \o <<"\n">>)

\* The body of the converted skill file.
SkillDocument(skillName, content) ==
    LET t == titleMatch(content)
        d == descMatch(content)
        title == IF t # <<>> THEN t ELSE Chars(skillName)
        description == IF d # <<>> THEN d ELSE title \o <<" skill">>
    IN  Text(<<"---\nname: ">> \o Chars(skillName) \o <<"\ndescription: ">> \o description
             \o <<"\nlicense: MIT\ncompatibility: opencode\nmetadata:\n  source: ai-dev-system\n---\n\n">>
             \o content \o <<"\n">>)

\* convertSkillToOpenCode with the output written beside the source file.
convertSkillInPlace(st, sourceSkillPath, targetDir, skillName) ==
    LET sourceFile == Join(sourceSkillPath, "SKILL.md")
    IN  IF ~st.ok \/ ~Exists(st.fs, sourceFile) THEN st
        ELSE IF ~IsFile(st.fs, sourceFile) THEN Throw(st)
        ELSE writeFileSync(st, sourceFile, SkillDocument(skillName, ReadText(st.fs, sourceFile)))

\* convertSkillToOpenCode with the output directory made before the source
\* file is looked for.
convertSkillMkdirFirst(st, sourceSkillPath, targetDir, skillName) ==
    LET sourceFile == Join(sourceSkillPath, "SKILL.md")
        targetSkillDir == Join(targetDir, skillName)
    IN  IF ~st.ok THEN st
        ELSE Bind(mkdirSync(st, targetSkillDir), LAMBDA made :
                 IF ~made.ok \/ ~Exists(st.fs, sourceFile) THEN made
                 ELSE IF ~IsFile(st.fs, sourceFile) THEN Throw(made)
                 ELSE writeFileSync(made, Join(targetSkillDir, "SKILL.md"),
                                    SkillDocument(skillName, ReadText(st.fs, sourceFile))))

convertSkillToOpenCode(st, sourceSkillPath, targetDir, skillName) ==
    LET sourceFile == Join(sourceSkillPath, "SKILL.md")
        targetSkillDir == Join(targetDir, skillName)
    IN  IF ~st.ok \/ ~Exists(st.fs, sourceFile) THEN st
        ELSE IF ~IsFile(st.fs, sourceFile) THEN Throw(st)
        ELSE Bind(mkdirSync(st, targetSkillDir), LAMBDA made :
                 writeFileSync(made, Join(targetSkillDir, "SKILL.md"),
                               SkillDocument(skillName, ReadText(st.fs, sourceFile))))

\* The converted agent file with the quote preferred to the heading.
AgentDocumentQuoteFirst(agentName, content) ==
    LET h == titleMatch(content)
        q == descMatch(content)
        description == IF q # <<>> THEN q ELSE IF h # <<>> THEN h
                       ELSE Chars(agentName) \o <<" agent">>
    IN  Text(<<"---\ndescription: ">> \o description
             \o <<"\nmodel: anthropic/claude-sonnet-4-5\n---\n\n">> \o content \o <<"\n">>)

\* The body of the converted agent file.
AgentDocument(agentName, content) ==
    LET h == titleMatch(content)
        q == descMatch(content)
        description == IF h # <<>> THEN h ELSE IF q # <<>> THEN q
                       ELSE Chars(agentName) \o <<" agent">>
    IN  Text(<<"---\ndescription: ">> \o description
             \o <<"\nmodel: anthropic/claude-sonnet-4-5\n---\n\n">> \o content \o <<"\n">>)

convertAgentToOpenCode(st, sourceAgentPath, targetDir, agentName) ==
    IF ~st.ok THEN st
    ELSE IF ~IsFile(st.fs, sourceAgentPath) THEN Throw(st)
    ELSE Bind(mkdirSync(st, targetDir), LAMBDA made :
             writeFileSync(made, Join(targetDir, NameOf(Chars(agentName) \o DotMd)),
                           AgentDocument(agentName, ReadText(st.fs, sourceAgentPath))))

\* The body of a generated command file.
CommandDocument(skill, content) ==
    LET q == descMatch(content)
        description == IF q # <<>> THEN q ELSE <<"Run ">> \o Chars(skill) \o <<" skill">>
    IN  Text(<<"---\ndescription: ">> \o description \o <<"\nagent: build\n---\n\nLoad and execute the ">>
             \o Chars(skill) \o <<" skill for the current context.\n\nUse the skill tool to load: skill(name: ">>
             \o Chars(skill)
             \o <<")\n\nThen follow the skill instructions to complete the task.\n\nARGUMENTS\n">>)

\* The loop of generateCommands with a command file for every skill folder,
\* whether it holds a SKILL.md or not.
RECURSIVE commandLoopAllFolders(_, _, _, _, _)
commandLoopAllFolders(st, sourceSkillsDir, targetCommandDir, skills, i) ==
    IF ~st.ok \/ i > Len(skills) THEN st
    ELSE LET skill == skills[i]
             skillFile == Join(Join(sourceSkillsDir, skill), "SKILL.md")
             step == IF Exists(st.fs, skillFile) /\ ~IsFile(st.fs, skillFile) THEN Throw(st)
                     ELSE writeFileSync(st, Join(targetCommandDir, NameOf(Chars(skill) \o DotMd)),
                                        CommandDocument(skill,
                                            IF Exists(st.fs, skillFile)
                                            THEN ReadText(st.fs, skillFile) ELSE <<>>))
         IN  Bind(step, LAMBDA next :
                  commandLoopAllFolders(next, sourceSkillsDir, targetCommandDir, skills, i + 1))

\* The loop of generateCommands over the skill folders from the i-th on.
RECURSIVE commandLoop(_, _, _, _, _)
commandLoop(st, sourceSkillsDir, targetCommandDir, skills, i) ==
    IF ~st.ok \/ i > Len(skills) THEN st
    ELSE LET skill == skills[i]
             skillFile == Join(Join(sourceSkillsDir, skill), "SKILL.md")
             step == IF ~Exists(st.fs, skillFile) THEN st
                     ELSE IF ~IsFile(st.fs, skillFile) THEN Throw(st)
                     ELSE writeFileSync(st, Join(targetCommandDir, NameOf(Chars(skill) \o DotMd)),
                                        CommandDocument(skill, ReadText(st.fs, skillFile)))
         IN  Bind(step, LAMBDA next :
                  commandLoop(next, sourceSkillsDir, targetCommandDir, skills, i + 1))

generateCommands(st, sourceSkillsDir, targetCommandDir) ==
    IF ~st.ok \/ ~Exists(st.fs, sourceSkillsDir) THEN st
    ELSE Bind(mkdirSync(st, targetCommandDir), LAMBDA made :
             IF ~made.ok THEN made
             ELSE IF ~IsDir(made.fs, sourceSkillsDir) THEN Throw(made)
             ELSE commandLoop(made, sourceSkillsDir, targetCommandDir,
                              SubDirs(made.fs, sourceSkillsDir), 1))

OpenCodeConfig == Text(<<"JSON.stringify(config, null, 2)">>)

\* generateOpenCodeConfig with the file appended to.
generateOpenCodeConfigAppend(st, targetDir, projectDir) ==
    appendFileSync(st, Join(projectDir, "opencode.json"), OpenCodeConfig)

generateOpenCodeConfig(st, targetDir, projectDir) ==
    writeFileSync(st, Join(projectDir, "opencode.json"), OpenCodeConfig)

AgentsMd(projectName) ==
    Text(<<"# ">> \o Chars(projectName) \o <<"\n\n## Project Overview ... Load context with: @.ai/context/index.md\n">>)

\* generateAgentsMd without the test for an existing AGENTS.md.
generateAgentsMdAlways(st, projectDir, projectName) ==
    writeFileSync(st, Join(projectDir, "AGENTS.md"), AgentsMd(projectName))

generateAgentsMd(st, projectDir, projectName) ==
    LET agentsMdPath == Join(projectDir, "AGENTS.md")
    IN  IF ~st.ok \/ Exists(st.fs, agentsMdPath) THEN st
        ELSE writeFileSync(st, agentsMdPath, AgentsMd(projectName))

PluginContent == Text(<<"import type Plugin from @opencode-ai/plugin ...">>)

generatePluginTemplate(st, targetDir) ==
    LET pluginDir == Join(targetDir, "plugin")
    IN  Bind(mkdirSync(st, pluginDir), LAMBDA made :
             writeFileSync(made, Join(pluginDir, "ai-dev-hooks.ts"), PluginContent))

\* The loop over the skill folders from the i-th on (syncOpenCode, syncClaude).
RECURSIVE skillLoop(_, _, _, _, _)
skillLoop(st, skillsDir, targetSkillsDir, skills, i) ==
    IF ~st.ok \/ i > Len(skills) THEN st
    ELSE Bind(convertSkillToOpenCode(st, Join(skillsDir, skills[i]), targetSkillsDir, skills[i]),
              LAMBDA next : skillLoop(next, skillsDir, targetSkillsDir, skills, i + 1))

\* if (fs.existsSync(skillsDir)) { readdirSync ... for (const skill of skills) ... }
convertSkills(st, skillsDir, targetSkillsDir) ==
    IF ~st.ok \/ ~Exists(st.fs, skillsDir) THEN st
    ELSE IF ~IsDir(st.fs, skillsDir) THEN Throw(st)
    ELSE skillLoop(st, skillsDir, targetSkillsDir, SubDirs(st.fs, skillsDir), 1)

\* The loop of syncOpenCode over the agent files from the i-th on.
RECURSIVE agentLoop(_, _, _, _, _)
agentLoop(st, agentsDir, targetAgentsDir, agents, i) ==
    IF ~st.ok \/ i > Len(agents) THEN st
    ELSE Bind(convertAgentToOpenCode(st, Join(agentsDir, agents[i]), targetAgentsDir,
                                     NameOf(RemoveFirst(Chars(agents[i]), DotMd))),
              LAMBDA next : agentLoop(next, agentsDir, targetAgentsDir, agents, i + 1))

convertAgents(st, agentsDir, targetAgentsDir) ==
    IF ~st.ok \/ ~Exists(st.fs, agentsDir) THEN st
    ELSE IF ~IsDir(st.fs, agentsDir) THEN Throw(st)
    ELSE LET IsMd(n) == EndsWith(n, DotMd)
         IN  agentLoop(st, agentsDir, targetAgentsDir,
                       SelectSeq(Listing(ChildNames(st.fs, agentsDir)), IsMd), 1)

\* The content tree of the package whatever the project holds.
AiDirOfPackage(f, projectDir) == getSourceAiDir

\* const aiDir = fs.existsSync(projectAiDir) ? projectAiDir : sourceAiDir
AiDirOf(f, projectDir) ==
    IF Exists(f, Join(projectDir, ".ai")) THEN Join(projectDir, ".ai") ELSE getSourceAiDir

syncOpenCode(st, projectDir) ==
    LET aiDir == AiDirOf(st.fs, projectDir)
        openCodeDir == Join(projectDir, ".opencode")
        skillsDir == Join(aiDir, "skills")
    IN  IF ~st.ok THEN st
        ELSE Bind(mkdirSync(st, openCodeDir), LAMBDA s1 :
             Bind(convertSkills(s1, skillsDir, Join(openCodeDir, "skill")), LAMBDA s2 :
             Bind(convertAgents(s2, Join(aiDir, "agents"), Join(openCodeDir, "agent")), LAMBDA s3 :
             Bind(generateCommands(s3, skillsDir, Join(openCodeDir, "command")), LAMBDA s4 :
             Bind(generatePluginTemplate(s4, openCodeDir), LAMBDA s5 :
             Bind(generateOpenCodeConfig(s5, openCodeDir, projectDir), LAMBDA s6 :
                  generateAgentsMd(s6, projectDir, Basename(projectDir))))))))

\* The skill list of CLAUDE.md: one "- <skill>" line per skill folder.
RECURSIVE SkillLines(_, _)
SkillLines(skills, i) ==
    IF i > Len(skills) THEN <<>>
    ELSE <<"- ">> \o Chars(skills[i])
         \o (IF i < Len(skills) THEN <<"\n">> ELSE <<>>) \o SkillLines(skills, i + 1)

ClaudeMd(projectName, f, skillsDir) ==
    Text(<<"# ">> \o Chars(projectName)
         \o <<"\n\n## Project Overview ... Custom skills are available in .claude/skills/:\n">>
         \o (IF Exists(f, skillsDir) THEN SkillLines(SubDirs(f, skillsDir), 1) ELSE <<"- (none)">>)
         \o <<"\n">>)

syncClaude(st, projectDir) ==
    LET aiDir == AiDirOf(st.fs, projectDir)
        claudeDir == Join(projectDir, ".claude")
        skillsDir == Join(aiDir, "skills")
        claudeMdPath == Join(projectDir, "CLAUDE.md")
    IN  Bind(mkdirSync(st, Join(claudeDir, "commands")), LAMBDA s0 :
        Bind(mkdirSync(s0, Join(claudeDir, "skills")), LAMBDA s1 :
        Bind(convertSkills(s1, skillsDir, Join(claudeDir, "skills")), LAMBDA s2 :
        Bind(generateCommands(s2, skillsDir, Join(claudeDir, "commands")), LAMBDA s3 :
             IF ~s3.ok THEN s3
             ELSE IF Exists(s3.fs, skillsDir) /\ ~IsDir(s3.fs, skillsDir) THEN Throw(s3)
             ELSE IF Exists(s3.fs, claudeMdPath) THEN s3
             ELSE writeFileSync(s3, claudeMdPath,
                                ClaudeMd(Basename(projectDir), s3.fs, skillsDir))))))

\* "sync all" with syncClaude first.
syncAllClaudeFirst(st, projectDir) ==
    Bind(syncClaude(st, projectDir), LAMBDA s1 : syncOpenCode(s1, projectDir))

\* The action of "sync all": syncOpenCode, then syncClaude.
syncAll(st, projectDir) ==
    Bind(syncOpenCode(st, projectDir), LAMBDA s1 : syncClaude(s1, projectDir))

---------------------------------------------------------------------------
(* utils/copy.ts: the Directory Synchronizer and the Bridge Generator      *)

\* getTargetAiDir(targetDir)
getTargetAiDir(targetDir) == Join(targetDir, ".ai")

\* directoryExists
directoryExists(f, p) == IsDir(f, p)

\* The path q, which is under src, moved under dst.
Rebase(q, src, dst) == dst \o SubSeq(q, Len(src) + 1, Len(q))

\* The regular files under directory root, as paths relative to it.
FilesUnder(f, root) ==
    {SubSeq(q, Len(root) + 1, Len(q)) : q \in {r \in DOMAIN f : IsPrefix(root, r) /\ IsFile(f, r)}}

\* The part of the content tree init asks for: everything outside stacks/,
\* and under stacks/ the chosen stack only, or every stack when none is
\* chosen ("" stands for undefined).
Relevant(f, sourceDir, stack) ==
    {r \in FilesUnder(f, sourceDir) : r[1] = "stacks" /\ stack # "" => r[2] = stack}

\* copyAiDirectory(sourceDir, targetDir, { stack, overwrite }): every
\* relevant file whose target exists is skipped unless overwrite is set;
\* every other one is copied, its directories being created as needed, or
\* reported as an error when that cannot be done; one file's failure does
\* not stop the others. The result carries the new file system and the
\* three lists of relative paths.
copyAiDirectory(f, sourceDir, targetDir, stack, overwrite) ==
    LET targetAi == getTargetAiDir(targetDir)
        all == Relevant(f, sourceDir, stack)
        skipped == {r \in all : ~overwrite /\ Exists(f, targetAi \o r)}
        errors == {r \in all \ skipped :
                      ~CanMkdir(f, Dirname(targetAi \o r)) \/ IsDir(f, targetAi \o r)}
        copied == (all \ skipped) \ errors
        dirs == UNION {Prefixes(Dirname(targetAi \o r)) : r \in copied}
        files == {targetAi \o r : r \in copied}
    IN  [fs |-> [q \in DOMAIN f \cup dirs \cup files |->
                    IF q \in files THEN f[Rebase(q, targetAi, sourceDir)]
                    ELSE IF q \in DOMAIN f THEN f[q] ELSE DirNode],
         success |-> errors = {},
         copied |-> copied, skipped |-> skipped, errors |-> errors]

\* AI_BRIDGES
AI_BRIDGES == [claude |-> ".claude", cursor |-> ".cursor", opencode |-> ".opencode", agent |-> ".agent"]
AITools == DOMAIN AI_BRIDGES

\* The subfolder of each bridge directory.
BridgeFolder == [claude |-> "skills", cursor |-> "commands", opencode |-> "context", agent |-> "workflows"]

BridgeReadme(tool) == Text(<<"# ", tool, " bridge\n\nAll core content is maintained in .ai/\n">>)

\* createBridges(targetDir, aiTools), 'all' being the set of all tools: a
\* bridge directory that exists is skipped; any other is created with its
\* subfolder and its README.md.
createBridges(f, targetDir, tools) ==
    LET dirOf(t) == Join(targetDir, AI_BRIDGES[t])
        skipped == {t \in tools : Exists(f, dirOf(t))}
        errors == {t \in tools \ skipped : ~CanMkdir(f, dirOf(t))}
        copied == (tools \ skipped) \ errors
        dirs == UNION {{dirOf(t), Join(dirOf(t), BridgeFolder[t])} : t \in copied}
        files == {Join(dirOf(t), "README.md") : t \in copied}
    IN  [fs |-> [q \in DOMAIN f \cup dirs \cup files |->
                    IF q \in files
                    THEN FileNode(BridgeReadme(CHOOSE t \in copied : q = Join(dirOf(t), "README.md")))
                    ELSE IF q \in DOMAIN f THEN f[q] ELSE DirNode],
         copied |-> {AI_BRIDGES[t] : t \in copied},
         skipped |-> {AI_BRIDGES[t] : t \in skipped},
         errors |-> {AI_BRIDGES[t] : t \in errors}]

---------------------------------------------------------------------------
(* commands/init.ts                                                        *)

\* The project every command is run against.
ProjectDir == <<"proj">>

NoResult == [copied |-> {}, skipped |-> {}, errors |-> {}]

\* The value init leaves behind: the file system, the messages printed, the
\* stack it settled on, the detection, the two results, and the components
\* it called, in order.
InitOutcome(f, out, stack, detection, copyResult, bridgeResult, calls) ==
    [fs |-> f, ok |-> TRUE, out |-> out, stack |-> stack, detection |-> detection,
     copy |-> copyResult, bridge |-> bridgeResult, calls |-> calls]

\* Steps 2 and 3 of init, ending where the synchronizer has collected errors.
initCopyStoppingOnErrors(f, options, stack, detection, out, overwrite, calls) ==
    LET targetDir == ProjectDir
        validTools == {options.ai[i] : i \in 1..Len(options.ai)} \cap AITools
        aiTools == IF options.ai # <<>> /\ options.ai # <<"all">> /\ validTools # {}
                   THEN validTools ELSE AITools
        copyOut(copyResult) ==
            (IF copyResult.success /\ copyResult.copied # {} THEN <<"Copied .ai directory">>
             ELSE IF copyResult.skipped # {} THEN <<"Some items skipped">> ELSE <<>>)
            \o (IF copyResult.errors # {} THEN <<"errors">> ELSE <<>>)
        bridgeOut(bridgeResult) ==
            IF bridgeResult.copied # {} THEN <<"Created AI tool bridges">>
            ELSE IF bridgeResult.skipped # {} THEN <<"Some bridges skipped">> ELSE <<>>
    IN  Bind(copyAiDirectory(f, getSourceAiDir, targetDir, stack, overwrite), LAMBDA copyResult :
        IF options.bridge /\ copyResult.errors = {}
        THEN Bind(createBridges(copyResult.fs, targetDir, aiTools), LAMBDA bridgeResult :
             InitOutcome(bridgeResult.fs,
                         out \o copyOut(copyResult) \o bridgeOut(bridgeResult)
                             \o <<"Initialization complete!">>,
                         stack, detection,
                         [copied |-> copyResult.copied, skipped |-> copyResult.skipped,
                          errors |-> copyResult.errors],
                         [copied |-> bridgeResult.copied, skipped |-> bridgeResult.skipped,
                          errors |-> bridgeResult.errors],
                         calls \o <<"copyAiDirectory", "createBridges">>))
        ELSE InitOutcome(copyResult.fs, out \o copyOut(copyResult) \o <<"Initialization complete!">>,
                         stack, detection,
                         [copied |-> copyResult.copied, skipped |-> copyResult.skipped,
                          errors |-> copyResult.errors],
                         NoResult, calls \o <<"copyAiDirectory">>))

\* Steps 2 and 3 of init with the overwrite flag given (init passes false).
initCopy(f, options, stack, detection, out, overwrite, calls) ==
    LET targetDir == ProjectDir
        validTools == {options.ai[i] : i \in 1..Len(options.ai)} \cap AITools
        aiTools == IF options.ai # <<>> /\ options.ai # <<"all">> /\ validTools # {}
                   THEN validTools ELSE AITools
        copyOut(copyResult) ==
            (IF copyResult.success /\ copyResult.copied # {} THEN <<"Copied .ai directory">>
             ELSE IF copyResult.skipped # {} THEN <<"Some items skipped">> ELSE <<>>)
            \o (IF copyResult.errors # {} THEN <<"errors">> ELSE <<>>)
        bridgeOut(bridgeResult) ==
            IF bridgeResult.copied # {} THEN <<"Created AI tool bridges">>
            ELSE IF bridgeResult.skipped # {} THEN <<"Some bridges skipped">> ELSE <<>>
    IN  Bind(copyAiDirectory(f, getSourceAiDir, targetDir, stack, overwrite), LAMBDA copyResult :
        IF options.bridge
        THEN Bind(createBridges(copyResult.fs, targetDir, aiTools), LAMBDA bridgeResult :
             InitOutcome(bridgeResult.fs,
                         out \o copyOut(copyResult) \o bridgeOut(bridgeResult)
                             \o <<"Initialization complete!">>,
                         stack, detection,
                         [copied |-> copyResult.copied, skipped |-> copyResult.skipped,
                          errors |-> copyResult.errors],
                         [copied |-> bridgeResult.copied, skipped |-> bridgeResult.skipped,
                          errors |-> bridgeResult.errors],
                         calls \o <<"copyAiDirectory", "createBridges">>))
        ELSE InitOutcome(copyResult.fs, out \o copyOut(copyResult) \o <<"Initialization complete!">>,
                         stack, detection,
                         [copied |-> copyResult.copied, skipped |-> copyResult.skipped,
                          errors |-> copyResult.errors],
                         NoResult, calls \o <<"copyAiDirectory">>))

\* init that hands the synchronizer no stack filter after a detection.
initWithoutFilter(f, options, overwrite) ==
    IF options.stack # ""
    THEN IF isValidStack(options.stack)
         THEN initCopy(f, options, options.stack, NoDetection, <<"Using specified stack">>,
                       overwrite, <<>>)
         ELSE InitOutcome(f, <<"Invalid stack", "Available stacks">>, "", NoDetection,
                          NoResult, NoResult, <<>>)
    ELSE Bind(detectStack(DirViewOf(f, ProjectDir)), LAMBDA detection :
         initCopy(f, options, "", detection, <<"Detected stack">>, overwrite, <<"detectStack">>))

\* init(options) with the overwrite flag it hands to the synchronizer;
\* options.stack is "" and options.ai is <<>> when not given.
initWith(f, options, overwrite) ==
    IF options.stack # ""
    THEN IF isValidStack(options.stack)
         THEN initCopy(f, options, options.stack, NoDetection, <<"Using specified stack">>,
                       overwrite, <<>>)
         ELSE InitOutcome(f, <<"Invalid stack", "Available stacks">>, "", NoDetection,
                          NoResult, NoResult, <<>>)
    ELSE Bind(detectStack(DirViewOf(f, ProjectDir)), LAMBDA detection :
         IF detection.stack # NullStack
         THEN initCopy(f, options, detection.stack, detection, <<"Detected stack">>, overwrite,
                       <<"detectStack">>)
         ELSE initCopy(f, options, "", detection,
                       <<"Could not detect stack, copying all stacks">>, overwrite,
                       <<"detectStack">>))

\* init with overwrite: true handed to the synchronizer.
initOverwriting(f, options) == initWith(f, options, TRUE)

\* init(options): the synchronizer is called with overwrite: false.
init(f, options) == initWith(f, options, FALSE)

---------------------------------------------------------------------------
(* commands/add.ts                                                         *)

\* fs.copy(srcPath, destPath) of a directory (fs-extra): fails when the
\* destination or one of its ancestors is a regular file.
CanCopy(f, dst) == CanMkdir(f, dst)
CopyTree(f, src, dst) ==
    LET moved == {Rebase(q, src, dst) : q \in {r \in DOMAIN f : IsPrefix(src, r)}}
        g == MkdirP(f, dst)
    IN  [q \in DOMAIN g \cup moved |->
            IF q \in moved THEN f[Rebase(q, dst, src)] ELSE g[q]]

AddOutcome(f, ok, out) == [fs |-> f, ok |-> ok, out |-> out]

\* AVAILABLE_STACKS.join(', '): the names in the order of the array.
StackList == <<"react-typescript", "php-laravel", "node-express">>

\* addStack without the test for an existing destination.
addStackReplacing(f, sourceDir, targetAiDir, name) ==
    LET srcPath == Join(Join(sourceDir, "stacks"), name)
        destPath == Join(Join(targetAiDir, "stacks"), name)
    IN  IF ~isValidStack(name)
        THEN AddOutcome(f, TRUE, <<"Invalid stack", "Available stacks">> \o StackList)
        ELSE IF ~directoryExists(f, srcPath) THEN AddOutcome(f, TRUE, <<"Stack not found in source">>)
        ELSE IF ~CanCopy(f, destPath) THEN AddOutcome(f, FALSE, <<>>)
        ELSE AddOutcome(CopyTree(f, srcPath, destPath), TRUE, <<"Added stack">>)

addStack(f, sourceDir, targetAiDir, name) ==
    LET srcPath == Join(Join(sourceDir, "stacks"), name)
        destPath == Join(Join(targetAiDir, "stacks"), name)
    IN  IF ~isValidStack(name)
        THEN AddOutcome(f, TRUE, <<"Invalid stack", "Available stacks">> \o StackList)
        ELSE IF ~directoryExists(f, srcPath) THEN AddOutcome(f, TRUE, <<"Stack not found in source">>)
        ELSE IF directoryExists(f, destPath) THEN AddOutcome(f, TRUE, <<"Stack already exists">>)
        ELSE IF ~CanCopy(f, destPath) THEN AddOutcome(f, FALSE, <<>>)
        ELSE AddOutcome(CopyTree(f, srcPath, destPath), TRUE, <<"Added stack">>)

\* The first stack, in listing order, that has the skill; "" when none has.
RECURSIVE findStackSkill(_, _, _, _, _)
findStackSkill(f, sourceDir, stacks, name, i) ==
    IF i > Len(stacks) THEN ""
    ELSE IF directoryExists(f, Join(Join(Join(Join(sourceDir, "stacks"), stacks[i]), "skills"), name))
         THEN stacks[i]
         ELSE findStackSkill(f, sourceDir, stacks, name, i + 1)

\* fs.readdir(dir).catch(() => []): the entries, none when dir cannot be read.
ReaddirOrNone(f, dir) == IF IsDir(f, dir) THEN Listing(ChildNames(f, dir)) ELSE <<>>

\* The lines printed for the stacks from the i-th on: for each stack that
\* has a skills directory with entries, a title and the entries.
RECURSIVE stackSkillLines(_, _, _, _)
stackSkillLines(f, sourceDir, stacks, i) ==
    IF i > Len(stacks) THEN <<>>
    ELSE LET stackSkillsDir == Join(Join(Join(sourceDir, "stacks"), stacks[i]), "skills")
             stackSkills == Listing(ChildNames(f, stackSkillsDir))
         IN  (IF directoryExists(f, stackSkillsDir) /\ stackSkills # <<>>
              THEN <<"Stack skills:", stacks[i]>> \o stackSkills ELSE <<>>)
             \o stackSkillLines(f, sourceDir, stacks, i + 1)

\* The list with the core skills only.
availableSkillsCoreOnly(f, sourceDir) ==
    LET mainSkills == ReaddirOrNone(f, Join(sourceDir, "skills"))
    IN  IF mainSkills # <<>> THEN <<"Core skills:">> \o mainSkills ELSE <<>>

\* The list printed under "Available skills:".
availableSkills(f, sourceDir) ==
    LET mainSkills == ReaddirOrNone(f, Join(sourceDir, "skills"))
    IN  (IF mainSkills # <<>> THEN <<"Core skills:">> \o mainSkills ELSE <<>>)
        \o stackSkillLines(f, sourceDir, ReaddirOrNone(f, Join(sourceDir, "stacks")), 1)

\* addSkill with the stacks looked through before the core skills.
addSkillStacksFirst(f, sourceDir, targetAiDir, name) ==
    LET mainSrc == Join(Join(sourceDir, "skills"), name)
        stacksDir == Join(sourceDir, "stacks")
        stack == findStackSkill(f, sourceDir, Listing(ChildNames(f, stacksDir)), name, 1)
        inStack == stack # ""
        srcPath == IF inStack THEN Join(Join(Join(stacksDir, stack), "skills"), name) ELSE mainSrc
        destPath == IF inStack
                    THEN Join(Join(Join(Join(targetAiDir, "stacks"), stack), "skills"), name)
                    ELSE Join(Join(targetAiDir, "skills"), name)
    IN  IF ~directoryExists(f, srcPath)
        THEN AddOutcome(f, TRUE, <<"Skill not found", "Available skills">>
                                 \o availableSkills(f, sourceDir))
        ELSE IF directoryExists(f, destPath) THEN AddOutcome(f, TRUE, <<"Skill already exists">>)
        ELSE IF ~CanCopy(f, destPath) THEN AddOutcome(f, FALSE, <<>>)
        ELSE AddOutcome(CopyTree(f, srcPath, destPath), TRUE, <<"Added skill">>)

addSkill(f, sourceDir, targetAiDir, name) ==
    LET mainSrc == Join(Join(sourceDir, "skills"), name)
        stacksDir == Join(sourceDir, "stacks")
        stack == findStackSkill(f, sourceDir, Listing(ChildNames(f, stacksDir)), name, 1)
        inStack == ~directoryExists(f, mainSrc) /\ stack # ""
        srcPath == IF inStack THEN Join(Join(Join(stacksDir, stack), "skills"), name) ELSE mainSrc
        destPath == IF inStack
                    THEN Join(Join(Join(Join(targetAiDir, "stacks"), stack), "skills"), name)
                    ELSE Join(Join(targetAiDir, "skills"), name)
    IN  IF ~directoryExists(f, mainSrc) /\ ~IsDir(f, stacksDir) THEN AddOutcome(f, FALSE, <<>>)
        ELSE IF ~directoryExists(f, srcPath)
             THEN AddOutcome(f, TRUE, <<"Skill not found", "Available skills">>
                                      \o availableSkills(f, sourceDir))
        ELSE IF directoryExists(f, destPath) THEN AddOutcome(f, TRUE, <<"Skill already exists">>)
        ELSE IF ~CanCopy(f, destPath) THEN AddOutcome(f, FALSE, <<>>)
        ELSE AddOutcome(CopyTree(f, srcPath, destPath), TRUE, <<"Added skill">>)

\* add with the type validated before the .ai directory is looked for.
addTypeFirst(f, type, name) ==
    LET sourceDir == getSourceAiDir
        targetAiDir == getTargetAiDir(ProjectDir)
    IN  IF type # "stack" /\ type # "skill"
        THEN AddOutcome(f, TRUE, <<"Invalid type", "Valid types: stack, skill">>)
        ELSE IF ~directoryExists(f, targetAiDir)
        THEN AddOutcome(f, TRUE, <<".ai directory not found", "Run ai-dev init first">>)
        ELSE Bind(IF type = "stack" THEN addStack(f, sourceDir, targetAiDir, name)
                  ELSE addSkill(f, sourceDir, targetAiDir, name),
                  LAMBDA r : IF r.ok THEN r ELSE AddOutcome(r.fs, TRUE, <<"Failed to add">>))

\* add(type, name): the try block catches what addStack and addSkill throw.
add(f, type, name) ==
    LET sourceDir == getSourceAiDir
        targetAiDir == getTargetAiDir(ProjectDir)
    IN  IF ~directoryExists(f, targetAiDir)
        THEN AddOutcome(f, TRUE, <<".ai directory not found", "Run ai-dev init first">>)
        ELSE IF type # "stack" /\ type # "skill"
        THEN AddOutcome(f, TRUE, <<"Invalid type", "Valid types: stack, skill">>)
        ELSE Bind(IF type = "stack" THEN addStack(f, sourceDir, targetAiDir, name)
                  ELSE addSkill(f, sourceDir, targetAiDir, name),
                  LAMBDA r : IF r.ok THEN r ELSE AddOutcome(r.fs, TRUE, <<"Failed to add">>))

---------------------------------------------------------------------------
(* The package's content tree and the projects the commands are run in     *)

\* The file system that holds the regular files of fileMap (path -> content)
\* and the directories dirs, with every directory above them.
MakeFs(fileMap, dirs) ==
    LET ds == UNION ({Prefixes(Dirname(q)) : q \in DOMAIN fileMap} \cup {Prefixes(d) : d \in dirs})
    IN  [q \in ds \cup DOMAIN fileMap |->
            IF q \in DOMAIN fileMap THEN FileNode(fileMap[q]) ELSE DirNode]

\* The package: .ai with a context file, a core skill, an agent and three
\* stacks, one of which has a skill of its own.
SourceFiles ==
    (<<"pkg", ".ai", "context", "index.md">> :> Text(<<"#", " ", "Context">>)) @@
    (<<"pkg", ".ai", "skills", "debug", "SKILL.md">> :>
        Text(<<"#", " ", "Debug", "\n", ">", " ", "Find", " ", "bugs", "\n", "steps">>)) @@
    (<<"pkg", ".ai", "agents", "oracle.md">> :>
        Text(<<">", " ", "Expert", "\n", "#", " ", "Oracle">>)) @@
    (<<"pkg", ".ai", "stacks", "react-typescript", "skills", "hook", "SKILL.md">> :>
        Text(<<"#", " ", "Hook", "\n", "text">>)) @@
    (<<"pkg", ".ai", "stacks", "php-laravel", "standards", "laravel.md">> :>
        Text(<<"#", " ", "Laravel">>)) @@
    (<<"pkg", ".ai", "stacks", "node-express", "standards", "express.md">> :>
        Text(<<"#", " ", "Express">>))

UserText == Text(<<"written", " ", "by", " ", "the", " ", "user">>)

\* The projects: what is in the target directory before the first command.
ProjectFiles(kind) ==
    CASE kind = "empty" -> <<>>
      [] kind = "react" ->
            (<<"proj", "package.json">> :>
                [k |-> "object", f |-> [dependencies |-> [react |-> "^18.0.0"]]])
      [] kind = "user" ->
            (<<"proj", "opencode.json">> :> UserText) @@
            (<<"proj", "AGENTS.md">> :> UserText) @@
            (<<"proj", "CLAUDE.md">> :> UserText) @@
            (<<"proj", "index.php">> :> Text(<<"<?php">>))
      [] kind = "custom" ->
            (<<"proj", ".ai", "skills", "deploy", "SKILL.md">> :> Text(<<"steps", "\n", ">", "Ship">>)) @@
            (<<"proj", ".ai", "agents", "oracle.md">> :> Text(<<"plain">>)) @@
            (<<"proj", ".opencode", "skill", "deploy", "SKILL.md">> :> UserText)
      [] kind = "odd" ->
            (<<"proj", ".ai", "skills", "debug", "SKILL.md">> :> Text(<<"#", " ", "Debug">>)) @@
            (<<"proj", "package.json">> :> [k |-> "malformed"]) @@
            (<<"proj", "App.tsx">> :> Text(<<"export">>))
      [] kind = "drafts" ->
            (<<"proj", ".ai", "skills", "wip", "SKILL.md">> :> Text(<<">", " ", "In", " ", "progress">>)) @@
            (<<"proj", ".ai", "agents", "notes.txt">> :> Text(<<"#", " ", "Notes">>))
      [] kind = "blocked" ->
            (<<"proj", ".ai">> :> Text(<<"not", " ", "a", " ", "directory">>)) @@
            (<<"proj", ".cursor">> :> Text(<<"not", " ", "a", " ", "directory">>))

ProjectDirs(kind) ==
    CASE kind = "custom" -> {<<"proj", ".ai", "skills", "wip">>}
      [] kind = "drafts" -> {<<"proj", ".ai", "skills", "deploy">>}
      [] kind = "odd" -> {<<"proj", ".ai", "agents", "draft.md">>}
      [] OTHER -> {<<"proj">>}

ProjectKinds == {"empty", "react", "user", "custom", "odd", "drafts", "blocked"}

\* The installations of the package: the whole content tree, one whose
\* stacks directory lacks node-express, and one where two stacks have a
\* skill named hook and a stack has a skill named as the core skill debug.
PackageKinds == {"full", "partial", "overlap"}

OverlapFiles ==
    (<<"pkg", ".ai", "stacks", "php-laravel", "skills", "hook", "SKILL.md">> :>
        Text(<<"#", " ", "Laravel", " ", "hook">>)) @@
    (<<"pkg", ".ai", "stacks", "node-express", "skills", "debug", "SKILL.md">> :>
        Text(<<"#", " ", "Express", " ", "debug">>))

PackageFiles(kind) ==
    CASE kind = "full" -> SourceFiles
      [] kind = "partial" ->
            [q \in {r \in DOMAIN SourceFiles : r[4] # "node-express"} |-> SourceFiles[q]]
      [] kind = "overlap" -> SourceFiles @@ OverlapFiles

InitialFs(package, kind) ==
    MakeFs(PackageFiles(package) @@ ProjectFiles(kind), ProjectDirs(kind))

\* The command lines the model tries.
SyncTargets == {"opencode", "claude", "all"}

InitOptions ==
    {[stack |-> "", ai |-> <<>>, bridge |-> TRUE],
     [stack |-> "react-typescript", ai |-> <<"all">>, bridge |-> TRUE],
     [stack |-> "php-laravel", ai |-> <<"cursor", "bogus">>, bridge |-> TRUE],
     [stack |-> "bogus", ai |-> <<>>, bridge |-> TRUE],
     [stack |-> "", ai |-> <<"bogus">>, bridge |-> TRUE],
     [stack |-> "", ai |-> <<"claude">>, bridge |-> FALSE]}

AddArgs ==
    {<<"stack", "react-typescript">>, <<"stack", "node-express">>, <<"stack", "bogus">>,
     <<"skill", "debug">>, <<"skill", "hook">>, <<"skill", "bogus">>, <<"bogus", "debug">>}

---------------------------------------------------------------------------
(* The command specification: any MaxCmds commands, one after the other    *)

\* No file at all, and no command run yet.
NoFiles == [q \in {} |-> DirNode]
NoCommand == [cmd |-> "none"]

\* What is recorded of a command: its name and arguments, whether it was
\* the command before it too, the file system it started from, whether an
\* exception left it, what it printed and what it returned.
Record(cmd, args, before, threw, out, res) ==
    [cmd |-> cmd, args |-> args, again |-> last.cmd = cmd /\ last.args = args,
     before |-> before, threw |-> threw, out |-> out, res |-> res]

Init ==
    /\ installed \in PackageKinds
    /\ \E kind \in ProjectKinds : fs = InitialFs(installed, kind)
    /\ last = NoCommand
    /\ ncmds = 0
    /\ probe = NoProbe
    /\ det = NoDetection
    /\ conv = NoConversion
    /\ tg = NoNotification

\* sync opencode | sync claude | sync all
SyncResult(f, target) ==
    CASE target = "opencode" -> syncOpenCode(Start(f), ProjectDir)
      [] target = "claude" -> syncClaude(Start(f), ProjectDir)
      [] target = "all" -> syncAll(Start(f), ProjectDir)

SyncCmd ==
    /\ ncmds < MaxCmds
    /\ \E target \in SyncTargets :
         \E r \in {SyncResult(fs, target)} :
             /\ fs' = r.fs
             /\ last' = Record("sync", <<target>>, fs, ~r.ok, <<>>, [log |-> r.log])
    /\ ncmds' = ncmds + 1
    /\ UNCHANGED <<probe, det, installed, conv, tg>>

InitCmd ==
    /\ ncmds < MaxCmds
    /\ \E options \in InitOptions :
         \E r \in {init(fs, options)} :
             /\ fs' = r.fs
             /\ last' = Record("init", options, fs, ~r.ok, r.out,
                               [stack |-> r.stack, detection |-> r.detection,
                                copy |-> r.copy, bridge |-> r.bridge, calls |-> r.calls])
    /\ ncmds' = ncmds + 1
    /\ UNCHANGED <<probe, det, installed, conv, tg>>

AddCmd ==
    /\ ncmds < MaxCmds
    /\ \E args \in AddArgs :
         \E r \in {add(fs, args[1], args[2])} :
             /\ fs' = r.fs
             /\ last' = Record("add", args, fs, ~r.ok, r.out, [log |-> <<>>])
    /\ ncmds' = ncmds + 1
    /\ UNCHANGED <<probe, det, installed, conv, tg>>

Next == SyncCmd \/ InitCmd \/ AddCmd

Spec == Init /\ [][Next]_vars

\* Every name in the file system is one a directory listing knows.
NamesKnown == \A q \in DOMAIN fs : \A i \in 1..Len(q) : q[i] \in Names

\* Every path but a root has a directory above it.
WellFormed == \A q \in DOMAIN fs : Len(q) > 1 => IsDir(fs, Dirname(q))

---------------------------------------------------------------------------
(* Properties of the commands                                              *)

Ran == last.cmd # "none"

\* The regular files of the project in file system f.
ProjectFilesOf(f) == {q \in DOMAIN f : IsPrefix(ProjectDir, q) /\ IsFile(f, q)}

\* C1: no command changes a file that existed in the project before it.
C1_NeverOverwrites ==
    Ran => \A q \in ProjectFilesOf(last.before) : IsFile(fs, q) /\ fs[q] = last.before[q]

\* The part of file system f that lies in the package.
PackagePart(f) == [q \in {r \in DOMAIN f : IsPrefix(PkgRoot, r)} |-> f[q]]

\* C2: every file and directory of the package's content tree is, after any
\* sequence of commands, what it was at the start; all writes go to the
\* project.
C2_SourceUntouched ==
    /\ PackagePart(fs) = MakeFs(PackageFiles(installed), {})
    /\ Ran /\ last.cmd = "sync" =>
          \A i \in 1..Len(last.res.log) : IsPrefix(ProjectDir, last.res.log[i])

\* A sync that read the package's tree, the project having no .ai, and
\* wrote the converted skill into the project.
C2_Witness ==
    /\ Ran /\ last.cmd = "sync" /\ ~last.threw
    /\ ~Exists(last.before, Join(ProjectDir, ".ai"))
    /\ ~Exists(last.before, <<"proj", ".opencode", "skill", "debug", "SKILL.md">>)
    /\ IsFile(fs, <<"proj", ".opencode", "skill", "debug", "SKILL.md">>)

\* The second of two init runs with the same options that reached the
\* synchronizer.
SecondInit ==
    Ran /\ last.cmd = "init" /\ last.again /\ (last.args.stack # "" => isValidStack(last.args.stack))

C4_SecondSyncChangesNothing ==
    (Ran /\ last.cmd = "sync" /\ last.again) => fs = last.before

\* A second "sync all" that ran to its end and rewrote its outputs.
C4_Witness ==
    /\ Ran /\ last.cmd = "sync" /\ last.again /\ ~last.threw
    /\ last.args = <<"all">>
    /\ Len(last.res.log) >= 4
    /\ IsFile(fs, <<"proj", "CLAUDE.md">>)

\* C5: no command lets an exception escape to its caller.
C5_NoExceptionEscapes == Ran => ~last.threw

\* The strings of a sequence.
Range(q) == {q[i] : i \in 1..Len(q)}

\* Everything in the project in file system f, the project directory aside.
ProjectEntries(f) == {q \in DOMAIN f : IsPrefix(ProjectDir, q) /\ q # ProjectDir}

\* The project holds a package.json with react under dependencies, and
\* nothing else.
OnlyReactManifest(f) ==
    LET manifest == <<"proj", "package.json">>
    IN  /\ ProjectEntries(f) = {manifest}
        /\ IsFile(f, manifest)
        /\ f[manifest].c.k = "object"
        /\ "dependencies" \in DOMAIN f[manifest].c.f
        /\ "react" \in DOMAIN f[manifest].c.f.dependencies

InitOnReactProject ==
    Ran /\ last.cmd = "init" /\ last.args.stack = "" /\ OnlyReactManifest(last.before)

\* C11: init without --stack in a directory that holds only a package.json
\* with react under dependencies selects react-typescript with high
\* confidence, calls the synchronizer after the detector with that stack as
\* its filter, and the target receives the react-typescript subtree of the
\* package and no other stack.
C11_ReactProjectInit ==
    InitOnReactProject =>
        LET sourceStack == Join(Join(getSourceAiDir, "stacks"), "react-typescript")
            targetStacks == Join(getTargetAiDir(ProjectDir), "stacks")
        IN  /\ ~last.threw
            /\ last.res.stack = "react-typescript"
            /\ last.res.detection.stack = "react-typescript"
            /\ last.res.detection.confidence = "high"
            /\ SubSeq(last.res.calls, 1, 2) = <<"detectStack", "copyAiDirectory">>
            /\ last.res.copy.copied = Relevant(last.before, getSourceAiDir, "react-typescript")
            /\ \A r \in FilesUnder(last.before, sourceStack) :
                  /\ IsFile(fs, Join(targetStacks, "react-typescript") \o r)
                  /\ fs[Join(targetStacks, "react-typescript") \o r] = last.before[sourceStack \o r]
            /\ ChildNames(fs, targetStacks) = {"react-typescript"}

\* An init on such a project that left the stack's skill in the target.
C11_Witness ==
    /\ InitOnReactProject
    /\ IsFile(fs, <<"proj", ".ai", "stacks", "react-typescript", "skills", "hook", "SKILL.md">>)
    /\ IsFile(fs, <<"proj", ".ai", "context", "index.md">>)

InitWithInvalidStack ==
    Ran /\ last.cmd = "init" /\ last.args.stack # "" /\ last.args.stack \notin AVAILABLE_STACKS

\* C12: init with a --stack value that is not an available stack reports
\* the invalid stack and returns without throwing; it calls neither the
\* detector nor the synchronizer nor the bridge generator, and the file
\* system is what it was.
C12_InvalidStackNoEffect ==
    InitWithInvalidStack =>
        /\ ~last.threw
        /\ last.out = <<"Invalid stack", "Available stacks">>
        /\ last.res.calls = <<>>
        /\ last.res.copy = NoResult /\ last.res.bridge = NoResult
        /\ fs = last.before

\* An init with an invalid stack in a project an init would have filled.
C12_Witness ==
    /\ InitWithInvalidStack
    /\ ~Exists(last.before, getTargetAiDir(ProjectDir))
    /\ ~Exists(fs, getTargetAiDir(ProjectDir))
    /\ ~Exists(fs, Join(ProjectDir, ".claude"))

\* C13 as stated: an init whose --ai names a tool that is not a bridge
\* identifier creates no bridge directory.
C13_InvalidToolAborts ==
    (/\ Ran /\ last.cmd = "init"
     /\ \E i \in 1..Len(last.args.ai) : last.args.ai[i] \notin AITools \cup {"all"})
    => /\ last.res.bridge.copied = {}
       /\ \A t \in AITools :
             Exists(fs, Join(ProjectDir, AI_BRIDGES[t]))
                => Exists(last.before, Join(ProjectDir, AI_BRIDGES[t]))

AddUninitialized ==
    Ran /\ last.cmd = "add" /\ ~IsDir(last.before, getTargetAiDir(ProjectDir))

\* C14: add in a project without a .ai directory prints the message that
\* tells the user to run init first, whatever its arguments are, throws
\* nothing and changes nothing.
C14_AddUninitialized ==
    AddUninitialized =>
        /\ ~last.threw
        /\ last.out = <<".ai directory not found", "Run ai-dev init first">>
        /\ fs = last.before

\* An add with an invalid type in a project whose .ai is not a directory.
C14_Witness ==
    /\ AddUninitialized
    /\ last.args[1] \notin {"stack", "skill"}
    /\ Exists(last.before, getTargetAiDir(ProjectDir))

\* No skill of that name in the package, neither a core skill nor a skill
\* of a stack.
UnknownSkill(f, name) ==
    /\ ~IsDir(f, Join(Join(getSourceAiDir, "skills"), name))
    /\ \A stack \in ChildNames(f, Join(getSourceAiDir, "stacks")) :
          ~IsDir(f, Join(Join(Join(Join(getSourceAiDir, "stacks"), stack), "skills"), name))

\* The names of the skills of the package: the core skills and the skills
\* of every stack.
SourceSkillNames(f) ==
    ChildNames(f, Join(getSourceAiDir, "skills"))
    \cup UNION {ChildNames(f, Join(Join(Join(getSourceAiDir, "stacks"), stack), "skills")) :
                   stack \in ChildNames(f, Join(getSourceAiDir, "stacks"))}

AddInitialized ==
    Ran /\ last.cmd = "add" /\ IsDir(last.before, getTargetAiDir(ProjectDir))

AddUnknownSkill ==
    AddInitialized /\ last.args[1] = "skill" /\ UnknownSkill(last.before, last.args[2])

\* C15: add skill with a name the package has no skill for, in an
\* initialized project, prints the names of all the skills of the package,
\* core and per stack, and changes nothing.
C15_UnknownSkillListsAvailable ==
    AddUnknownSkill =>
        /\ ~last.threw
        /\ SubSeq(last.out, 1, 2) = <<"Skill not found", "Available skills">>
        /\ SourceSkillNames(last.before) \subseteq Range(last.out)
        /\ fs = last.before

\* An unknown skill answered with the core skill and the stack's skill.
C15_Witness ==
    /\ AddUnknownSkill
    /\ {"debug", "hook"} \subseteq Range(last.out)
    /\ "react-typescript" \in Range(last.out)

\* What add was asked for is not in the package.
MissingSource(f, args) ==
    \/ args[1] = "stack" /\ ~IsDir(f, Join(Join(getSourceAiDir, "stacks"), args[2]))
    \/ args[1] = "skill" /\ UnknownSkill(f, args[2])

\* C16 as stated: whenever the stack or skill asked for is not in the
\* package, what add prints includes the available names.
C16_MissingSourceListsAlternatives ==
    (AddInitialized /\ MissingSource(last.before, last.args)) =>
        IF last.args[1] = "stack" THEN AVAILABLE_STACKS \subseteq Range(last.out)
        ELSE SourceSkillNames(last.before) \subseteq Range(last.out)

\* The directory add would create: the stack's, or the skill's beside the
\* first place the package has it.
AddDestination(f, args) ==
    LET targetAiDir == getTargetAiDir(ProjectDir)
        stack == findStackSkill(f, getSourceAiDir,
                                Listing(ChildNames(f, Join(getSourceAiDir, "stacks"))), args[2], 1)
    IN  IF args[1] = "stack" THEN Join(Join(targetAiDir, "stacks"), args[2])
        ELSE IF IsDir(f, Join(Join(getSourceAiDir, "skills"), args[2]))
        THEN Join(Join(targetAiDir, "skills"), args[2])
        ELSE Join(Join(Join(Join(targetAiDir, "stacks"), stack), "skills"), args[2])

\* add was asked for something the package has and the project has too.
AddExisting ==
    /\ AddInitialized /\ last.args[1] \in {"stack", "skill"}
    /\ last.args[1] = "stack" => isValidStack(last.args[2])
    /\ ~MissingSource(last.before, last.args)
    /\ IsDir(last.before, AddDestination(last.before, last.args))

\* C17: add changes nothing that exists: when the destination directory
\* exists it reports "already exists" and leaves the file system as it
\* was, and the second of two runs of the same add changes nothing.
C17_AddNeverReplaces ==
    /\ AddExisting =>
          /\ fs = last.before
          /\ last.out \in {<<"Stack already exists">>, <<"Skill already exists">>}
    /\ (Ran /\ last.cmd = "add") =>
          /\ \A q \in ProjectEntries(last.before) : q \in DOMAIN fs /\ fs[q] = last.before[q]
          /\ last.again => fs = last.before

\* The second of two runs of an add whose first run copied a stack's skill.
C17_Witness ==
    /\ AddExisting /\ last.again
    /\ last.out = <<"Skill already exists">>
    /\ IsFile(fs, <<"proj", ".ai", "stacks", "react-typescript", "skills", "hook", "SKILL.md">>)

---------------------------------------------------------------------------
(* Properties of sync                                                      *)

Synced(target) == Ran /\ last.cmd = "sync" /\ last.args = <<target>>

OpenCodeDir == Join(ProjectDir, ".opencode")
ClaudeDir == Join(ProjectDir, ".claude")

\* The content tree a sync started in file system f reads: the project's
\* .ai when that path exists, the package's otherwise.
TreeOf(f) ==
    IF Join(ProjectDir, ".ai") \in DOMAIN f THEN Join(ProjectDir, ".ai") ELSE Join(PkgRoot, ".ai")

\* The folders under the skills directory of the tree, and those of them
\* that hold a SKILL.md.
SkillFolders(f, tree) ==
    {n \in ChildNames(f, Join(tree, "skills")) : IsDir(f, Join(Join(tree, "skills"), n))}
Skills(f, tree) ==
    {n \in SkillFolders(f, tree) : IsFile(f, Join(Join(Join(tree, "skills"), n), "SKILL.md"))}

\* The paths a sync wrote.
Written == Range(last.res.log)

\* The entries of the agents directory of the tree that cannot be read as
\* agent files: directories named *.md.
UnreadableAgents(f, tree) ==
    {n \in ChildNames(f, Join(tree, "agents")) :
        EndsWith(n, DotMd) /\ ~IsFile(f, Join(Join(tree, "agents"), n))}

\* C22: sync opencode passes over a skill folder without SKILL.md: nothing
\* is created for it under .opencode/skill, no error comes of it, and every
\* folder with a SKILL.md, whether listed before or after it, is converted.
C22_MissingSkillFileSkipped ==
    Synced("opencode") =>
        LET tree == TreeOf(last.before)
            out == Join(OpenCodeDir, "skill")
        IN  /\ \A n \in SkillFolders(last.before, tree) \ Skills(last.before, tree) :
                 ~Exists(last.before, Join(Join(Join(tree, "skills"), n), "SKILL.md")) =>
                    /\ Join(Join(out, n), "SKILL.md") \notin Written
                    /\ ~Exists(last.before, Join(out, n)) => ~Exists(fs, Join(out, n))
            /\ \A n \in Skills(last.before, tree) :
                 /\ Join(Join(out, n), "SKILL.md") \in Written
                 /\ IsFile(fs, Join(Join(out, n), "SKILL.md"))
            /\ last.threw => UnreadableAgents(last.before, tree) # {}

\* A sync opencode that passed over the folder deploy, listed first, and
\* converted the folder wip.
C22_Witness ==
    /\ Synced("opencode") /\ ~last.threw
    /\ IsDir(last.before, <<"proj", ".ai", "skills", "deploy">>)
    /\ ~Exists(last.before, <<"proj", ".ai", "skills", "deploy", "SKILL.md">>)
    /\ ~Exists(fs, <<"proj", ".opencode", "skill", "deploy">>)
    /\ <<"proj", ".opencode", "skill", "wip", "SKILL.md">> \in Written

\* The project's .ai/skills holds exactly one skill folder, with a
\* SKILL.md, and the project has no .opencode.
OneSkillProject(f, n) ==
    /\ ~Exists(f, OpenCodeDir)
    /\ IsDir(f, Join(Join(ProjectDir, ".ai"), "skills"))
    /\ ChildNames(f, Join(Join(ProjectDir, ".ai"), "skills")) = {n}
    /\ Skills(f, Join(ProjectDir, ".ai")) = {n}

\* C23: sync opencode on such a project leaves exactly one file under
\* .opencode/skill/, <skill>/SKILL.md, and its header has the line
\* name: <skill>.
C23_OneSkillOneFile ==
    Synced("opencode") =>
        \A n \in Names :
            OneSkillProject(last.before, n) =>
                LET file == Join(Join(Join(OpenCodeDir, "skill"), n), "SKILL.md")
                    head == <<"---\nname: ">> \o Chars(n) \o <<"\ndescription: ">>
                IN  /\ {q \in DOMAIN fs : IsFile(fs, q) /\ IsPrefix(Join(OpenCodeDir, "skill"), q)}
                          = {file}
                    /\ IsFile(fs, file)
                    /\ SubSeq(fs[file].c.s, 1, Len(head)) = head

\* A sync opencode, run to its end, on a project whose only skill is debug.
C23_Witness ==
    /\ Synced("opencode") /\ ~last.threw
    /\ OneSkillProject(last.before, "debug")
    /\ IsFile(fs, <<"proj", ".opencode", "skill", "debug", "SKILL.md">>)

\* A path the OpenCode sync writes, a path the Claude sync writes.
IsOpenCodeOutput(q) ==
    IsPrefix(OpenCodeDir, q) \/ q = Join(ProjectDir, "opencode.json") \/ q = Join(ProjectDir, "AGENTS.md")
IsClaudeOutput(q) == IsPrefix(ClaudeDir, q) \/ q = Join(ProjectDir, "CLAUDE.md")

\* The OpenCode sync ran to its end: opencode.json, which it writes after
\* everything but AGENTS.md, was written.
OpenCodeCompleted == Join(ProjectDir, "opencode.json") \in Written

\* C26: sync all writes every output of the OpenCode sync before any file
\* under .claude/ or CLAUDE.md; when the OpenCode sync fails, the Claude
\* sync does not run: nothing of it is written or created.
C26_OpenCodeBeforeClaude ==
    Synced("all") =>
        LET log == last.res.log
        IN  /\ \A i, j \in 1..Len(log) :
                  IsOpenCodeOutput(log[i]) /\ IsClaudeOutput(log[j]) => i < j
            /\ \A i \in 1..Len(log) : IsOpenCodeOutput(log[i]) \/ IsClaudeOutput(log[i])
            /\ (\E i \in 1..Len(log) : IsClaudeOutput(log[i])) => OpenCodeCompleted
            /\ ~OpenCodeCompleted =>
                  /\ last.threw
                  /\ \A q \in DOMAIN fs \ DOMAIN last.before : ~IsClaudeOutput(q)
                  /\ \A q \in DOMAIN last.before : IsClaudeOutput(q) => fs[q] = last.before[q]

\* A sync all that wrote OpenCode outputs and then Claude outputs.
C26_Witness ==
    /\ Synced("all") /\ ~last.threw
    /\ \E i, j \in 1..Len(last.res.log) :
          /\ i < j
          /\ last.res.log[i] = <<"proj", "AGENTS.md">>
          /\ last.res.log[j] = <<"proj", ".claude", "skills", "debug", "SKILL.md">>

\* A sync all whose OpenCode sync failed after writing a skill.
C26_WitnessFailure ==
    /\ Synced("all") /\ last.threw
    /\ ~OpenCodeCompleted
    /\ last.res.log # <<>>
    /\ ~Exists(fs, ClaudeDir)

\* The skill files written under the directory out are those of the skills
\* of the tree, each converted from the SKILL.md of the tree.
SkillsWrittenFrom(f, tree, out, all) ==
    LET skillFile(n) == Join(Join(out, n), "SKILL.md")
        source(n) == Join(Join(Join(tree, "skills"), n), "SKILL.md")
    IN  /\ {q \in Written : IsPrefix(out, q)} \subseteq {skillFile(n) : n \in Skills(f, tree)}
        /\ all => {skillFile(n) : n \in Skills(f, tree)} \subseteq Written
        /\ \A n \in Skills(f, tree) :
              skillFile(n) \in Written => fs[skillFile(n)].c = SkillDocument(n, f[source(n)].c.s)

\* The agent files written under the directory out are converted from the
\* .md files of the agents directory of the tree.
AgentsWrittenFrom(f, tree, out) ==
    \A q \in {r \in Written : IsPrefix(out, r)} :
        /\ Dirname(q) = out
        /\ IsFile(f, Join(Join(tree, "agents"), Basename(q)))
        /\ fs[q].c = AgentDocument(NameOf(RemoveFirst(Chars(Basename(q)), DotMd)),
                                   f[Join(Join(tree, "agents"), Basename(q))].c.s)

C27_WitnessPackage ==
    /\ Synced("opencode") /\ ~last.threw
    /\ ~Exists(last.before, Join(ProjectDir, ".ai"))
    /\ <<"proj", ".opencode", "skill", "debug", "SKILL.md">> \in Written
    /\ <<"proj", ".opencode", "agent", "oracle.md">> \in Written

\* C28: an AGENTS.md or CLAUDE.md that exists when a sync starts is what it
\* was when the sync ends, and is not written.
C28_InstructionFilesKept ==
    Ran /\ last.cmd = "sync" =>
        \A q \in {Join(ProjectDir, "AGENTS.md"), Join(ProjectDir, "CLAUDE.md")} :
            Exists(last.before, q) => /\ q \notin Written
                                      /\ Exists(fs, q) /\ fs[q] = last.before[q]

\* A sync all, run to its end, in the project where the user wrote both
\* files: both hold the user's text, and opencode.json was written.
C28_Witness ==
    /\ Synced("all") /\ ~last.threw
    /\ IsFile(last.before, <<"proj", "AGENTS.md">>) /\ IsFile(last.before, <<"proj", "CLAUDE.md">>)
    /\ fs[<<"proj", "AGENTS.md">>].c = UserText
    /\ fs[<<"proj", "CLAUDE.md">>].c = UserText
    /\ <<"proj", "opencode.json">> \in Written

---------------------------------------------------------------------------
(* Properties of the order of init and of add skill                        *)

\* C24: init calls the detector first, when no stack is given, then the
\* synchronizer, then the bridge generator unless bridges are disabled; an
\* invalid stack ends it before the synchronizer, errors collected by the
\* synchronizer do not.
C24_InitOrder ==
    Ran /\ last.cmd = "init" =>
        LET options == last.args
            detect == IF options.stack = "" THEN <<"detectStack">> ELSE <<>>
            bridges == IF options.bridge THEN <<"createBridges">> ELSE <<>>
        IN  /\ ~last.threw
            /\ last.res.calls =
                  IF options.stack # "" /\ options.stack \notin AVAILABLE_STACKS THEN <<>>
                  ELSE detect \o <<"copyAiDirectory">> \o bridges
            /\ last.res.copy.errors # {} =>
                  last.out[Len(last.out)] = "Initialization complete!"

\* An init whose synchronizer collected errors and whose bridge generator
\* ran after it.
C24_Witness ==
    /\ Ran /\ last.cmd = "init"
    /\ last.res.copy.errors # {}
    /\ last.res.calls = <<"detectStack", "copyAiDirectory", "createBridges">>
    /\ last.res.bridge.copied # {}

\* The stacks of the package that have the skill, and the one of them the
\* stacks directory lists first.
StacksWithSkill(f, name) ==
    {stack \in ChildNames(f, Join(getSourceAiDir, "stacks")) :
        IsDir(f, Join(Join(Join(Join(getSourceAiDir, "stacks"), stack), "skills"), name))}
Position(n) == CHOOSE i \in 1..Len(NameOrder) : NameOrder[i] = n
FirstListed(S) == CHOOSE n \in S : \A m \in S : Position(n) <= Position(m)

AddedSkill ==
    AddInitialized /\ last.args[1] = "skill" /\ last.out = <<"Added skill">>

\* C30: add skill copies a core skill of that name to .ai/skills/<name>,
\* whatever the stacks hold; when there is no core skill of that name, it
\* copies the skill of the first stack, in listing order, that has one, to
\* .ai/stacks/<stack>/skills/<name>. Nothing else is created.
C30_SkillResolution ==
    AddedSkill =>
        LET name == last.args[2]
            f == last.before
            core == Join(Join(getSourceAiDir, "skills"), name)
            stack == FirstListed(StacksWithSkill(f, name))
            src == IF IsDir(f, core) THEN core
                   ELSE Join(Join(Join(Join(getSourceAiDir, "stacks"), stack), "skills"), name)
            dest == IF IsDir(f, core) THEN Join(Join(getTargetAiDir(ProjectDir), "skills"), name)
                    ELSE Join(Join(Join(Join(getTargetAiDir(ProjectDir), "stacks"), stack),
                                   "skills"), name)
        IN  /\ IsDir(f, core) \/ StacksWithSkill(f, name) # {}
            /\ \A q \in DOMAIN fs \ DOMAIN f : IsPrefix(q, dest) \/ IsPrefix(dest, q)
            /\ \A q \in DOMAIN f : IsPrefix(src, q) =>
                  Exists(fs, Rebase(q, src, dest)) /\ fs[Rebase(q, src, dest)] = f[q]
            /\ \A q \in DOMAIN f : fs[q] = f[q]

\* add skill debug where a stack has a skill debug too: the core skill is
\* copied, to .ai/skills/debug.
C30_Witness ==
    /\ AddedSkill /\ last.args[2] = "debug"
    /\ StacksWithSkill(last.before, "debug") # {}
    /\ fs[<<"proj", ".ai", "skills", "debug", "SKILL.md">>]
          = last.before[<<"pkg", ".ai", "skills", "debug", "SKILL.md">>]
    /\ ~Exists(fs, <<"proj", ".ai", "stacks", "node-express", "skills", "debug">>)

\* add skill hook where two stacks have a skill hook: the one of the stack
\* listed first is copied, under that stack.
C30_WitnessStack ==
    /\ AddedSkill /\ last.args[2] = "hook"
    /\ StacksWithSkill(last.before, "hook") = {"php-laravel", "react-typescript"}
    /\ fs[<<"proj", ".ai", "stacks", "php-laravel", "skills", "hook", "SKILL.md">>]
          = last.before[<<"pkg", ".ai", "stacks", "php-laravel", "skills", "hook", "SKILL.md">>]
    /\ ~Exists(fs, <<"proj", ".ai", "skills", "hook">>)

---------------------------------------------------------------------------
(* The directories the detector is probed with                             *)

DepNames == {"laravel/framework", "react", "react-dom", "express", "typescript", "lodash"}

\* "" is a version string JavaScript treats as false.
Versions == {"^1.0", ""}

ManifestFields ==
    [composer |-> {"require", "require-dev"}, package |-> {"dependencies", "devDependencies"}]

\* A dependency entry is named by <<manifest, field, dependency name>>.
EntryKeys ==
    UNION {{<<m, f, n>> : f \in ManifestFields[m], n \in DepNames} : m \in {"composer", "package"}}

\* The subsets of S with at most k elements.
RECURSIVE SubsetsUpTo(_, _)
SubsetsUpTo(S, k) ==
    IF k = 0 \/ S = {} THEN {{}}
    ELSE LET x == CHOOSE y \in S : TRUE
             without == SubsetsUpTo(S \ {x}, k)
             with == {T \cup {x} : T \in SubsetsUpTo(S \ {x}, k - 1)}
         IN  without \cup with

\* The object a manifest holds, given the entries e (a function from entry
\* keys to versions): a field is present exactly when it has an entry.
ObjectOf(m, e) ==
    LET flds == {f \in ManifestFields[m] : \E n \in DepNames : <<m, f, n>> \in DOMAIN e}
    IN  [k |-> "object",
         f |-> [f \in flds |->
                  [n \in {n \in DepNames : <<m, f, n>> \in DOMAIN e} |-> e[<<m, f, n>>]]]]

\* What can be at a manifest's path when it holds no dependency entry.
PlainManifests ==
    {[k |-> "absent"], [k |-> "dir"]} \cup
    {[k |-> "file", json |-> j] :
        j \in {[k |-> "malformed"], [k |-> "null"], [k |-> "scalar"], [k |-> "array"],
               [k |-> "object", f |-> EmptyMap]}}

ManifestsOf(m, e) ==
    IF \E key \in DOMAIN e : key[1] = m
    THEN {[k |-> "file", json |-> ObjectOf(m, e)]}
    ELSE PlainManifests

ProbeNames == {"App.tsx", "index.php", "notes.txt"}

Listings ==
    {[ok |-> TRUE, names |-> N] : N \in SUBSET ProbeNames} \cup {[ok |-> FALSE, names |-> {}]}

\* The directory with manifests c and p and top-level listing l.
DirView(c, p, l) == [composer |-> c, package |-> p, listing |-> l]


---------------------------------------------------------------------------
(* The detector specification: detectStack applied to every directory of   *)
(* DirViews.                                                               *)

InitDetect ==
    /\ fs = NoFiles
    /\ last = NoCommand
    /\ ncmds = 0
    /\ probe = NoProbe
    /\ det = NoDetection
    /\ installed = "full"
    /\ conv = NoConversion
    /\ tg = NoNotification

\* The caller names a directory: any directory whose manifests hold at most
\* MaxDeps dependency entries.
Probe ==
    /\ probe = NoProbe
    /\ \E S \in SubsetsUpTo(EntryKeys, MaxDeps) : \E e \in [S -> Versions] :
         \E c \in ManifestsOf("composer", e), p \in ManifestsOf("package", e), l \in Listings :
            probe' = DirView(c, p, l)
    /\ UNCHANGED <<fs, last, ncmds, det, installed, conv, tg>>

Detect ==
    /\ probe # NoProbe
    /\ det = NoDetection
    /\ det' = detectStack(probe)
    /\ UNCHANGED <<fs, last, ncmds, probe, installed, conv, tg>>

NextDetect == Probe \/ Detect

SpecDetect == InitDetect /\ [][NextDetect]_vars

---------------------------------------------------------------------------
(* Properties of the detector                                              *)

Detected == det # NoDetection

\* The value of deps[name] is truthy, read off the manifest text: the entry
\* of the second field wins over the entry of the first.
Declares(d, m, first, second, name) ==
    /\ d[m].k = "file"
    /\ d[m].json.k = "object"
    /\ LET f == d[m].json.f
       IN  IF second \in DOMAIN f /\ name \in DOMAIN f[second]
           THEN f[second][name] # ""
           ELSE first \in DOMAIN f /\ name \in DOMAIN f[first] /\ f[first][name] # ""

InComposer(d, name) == Declares(d, "composer", "require", "require-dev", name)
InPackage(d, name) == Declares(d, "package", "dependencies", "devDependencies", name)

LaravelRule(d) == InComposer(d, "laravel/framework")
ReactRule(d) == InPackage(d, "react") \/ InPackage(d, "react-dom")
ExpressRule(d) == InPackage(d, "express")
TypescriptRule(d) == InPackage(d, "typescript")
ManifestRule(d) == LaravelRule(d) \/ ReactRule(d) \/ ExpressRule(d) \/ TypescriptRule(d)

\* The stack labels of the dependency names a directory declares.
DeclaredLabels(d) ==
    (IF LaravelRule(d) THEN {"php-laravel"} ELSE {}) \cup
    (IF ReactRule(d) \/ TypescriptRule(d) THEN {"react-typescript"} ELSE {}) \cup
    (IF ExpressRule(d) THEN {"node-express"} ELSE {})

HighRule(d) == LaravelRule(d) \/ ReactRule(d) \/ ExpressRule(d)

\* C6 as stated: a manifest that declares any of the five tested names gets
\* the label of a declared name with confidence high.
C6_AllNamesHigh ==
    (Detected /\ ManifestRule(probe)) =>
        /\ det.kind = "return"
        /\ det.confidence = "high"
        /\ det.stack \in DeclaredLabels(probe)

\* The labels of the declared names that the detector reports with high
\* confidence.
HighLabels(d) ==
    (IF LaravelRule(d) THEN {"php-laravel"} ELSE {}) \cup
    (IF ReactRule(d) THEN {"react-typescript"} ELSE {}) \cup
    (IF ExpressRule(d) THEN {"node-express"} ELSE {})

\* C6 (amended): a manifest that declares laravel/framework (composer.json)
\* or react, react-dom or express (package.json) with a non-empty version
\* gets the label of one of those names with confidence high; a manifest
\* that declares only typescript gets react-typescript with confidence low.
C6_KnownDependencyConfidence ==
    Detected =>
        /\ HighRule(probe) =>
              /\ det.kind = "return"
              /\ det.confidence = "high"
              /\ det.stack \in HighLabels(probe)
        /\ (TypescriptRule(probe) /\ ~HighRule(probe)) =>
              /\ det.kind = "return"
              /\ det.confidence = "low"
              /\ det.stack = "react-typescript"

C6_Witness ==
    /\ Detected
    /\ InPackage(probe, "express")
    /\ InPackage(probe, "typescript")
    /\ det.stack = "node-express"

\* What the extension scan of a listing yields, read off the file names.
ScanResult(l) ==
    LET names == IF l.ok THEN l.names ELSE {}
    IN  IF \E f \in names : EndsWith(f, DotTsx)
        THEN [stack |-> "react-typescript", confidence |-> "medium"]
        ELSE IF \E f \in names : EndsWith(f, DotPhp)
        THEN [stack |-> "php-laravel", confidence |-> "low"]
        ELSE [stack |-> NullStack, confidence |-> "low"]

Verdict(r) == [stack |-> r.stack, confidence |-> r.confidence]

\* C7: the rules are tried in the order Laravel, React, Express, TypeScript,
\* extension scan (.tsx before .php) and the result is that of the first
\* rule that matches.
C7_FirstMatchWins ==
    Detected =>
        /\ det.kind = "return"
        /\ Verdict(det) =
              IF LaravelRule(probe) THEN [stack |-> "php-laravel", confidence |-> "high"]
              ELSE IF ReactRule(probe) THEN [stack |-> "react-typescript", confidence |-> "high"]
              ELSE IF ExpressRule(probe) THEN [stack |-> "node-express", confidence |-> "high"]
              ELSE IF TypescriptRule(probe) THEN [stack |-> "react-typescript", confidence |-> "low"]
              ELSE ScanResult(probe.listing)
        /\ det.reason =
              IF LaravelRule(probe) THEN "Found laravel/framework in composer.json"
              ELSE IF ReactRule(probe) THEN "Found react in package.json"
              ELSE IF ExpressRule(probe) THEN "Found express in package.json"
              ELSE IF TypescriptRule(probe) THEN "Found typescript but no specific framework"
              ELSE IF det.stack = "react-typescript" THEN "Found .tsx files in project root"
              ELSE IF det.stack = "php-laravel" THEN "Found .php files (assuming Laravel)"
              ELSE "Could not detect stack"

\* A directory that matches the React rule, the Express rule and the .php
\* scan at once.
C7_Witness ==
    /\ Detected
    /\ ReactRule(probe)
    /\ ExpressRule(probe)
    /\ probe.listing.ok /\ "index.php" \in probe.listing.names
    /\ det.stack = "react-typescript"

\* C8: detectStack never throws, and a directory none of whose manifest
\* rules matches gets the result of the extension scan of its top-level
\* names (an unreadable listing scanning as empty).
C8_FallbackNeverThrows ==
    Detected =>
        /\ det.kind = "return"
        /\ ~ManifestRule(probe) => Verdict(det) = ScanResult(probe.listing)

\* A directory with a manifest that declares only an unknown name and with
\* a listing that cannot be read.
C8_Witness ==
    /\ Detected
    /\ ~ManifestRule(probe)
    /\ fileExists(probe.package) /\ probe.package.json.k = "object"
    /\ ~probe.listing.ok
    /\ det.stack = NullStack

\* The manifest cannot be parsed or is not an object.
Unusable(m) == m.k = "file" /\ m.json.k \in {"malformed", "null", "scalar", "array"}

Absent == [k |-> "absent"]

\* C9: a manifest that cannot be parsed or is not an object changes nothing:
\* the result is the one for the same directory without that manifest.
C9_MalformedIsAbsent ==
    Detected =>
        /\ det.kind = "return"
        /\ Unusable(probe.composer) => det = detectStack([probe EXCEPT !.composer = Absent])
        /\ Unusable(probe.package) => det = detectStack([probe EXCEPT !.package = Absent])

\* A malformed composer.json beside a package.json that declares react.
C9_Witness ==
    /\ Detected
    /\ Unusable(probe.composer)
    /\ ReactRule(probe)
    /\ det.stack = "react-typescript"

\* Some top-level name ends in .tsx or .php.
HasStackExtension(d) ==
    d.listing.ok /\ \E f \in d.listing.names : EndsWith(f, DotTsx) \/ EndsWith(f, DotPhp)

\* C10: the stack is null exactly when no manifest rule matches and no
\* top-level name ends in .tsx or .php, the confidence is then low, and any
\* other stack is one of the available stacks.
C10_NullIffNothingMatches ==
    Detected =>
        /\ det.kind = "return"
        /\ det.stack = NullStack <=> (~ManifestRule(probe) /\ ~HasStackExtension(probe))
        /\ det.stack = NullStack => det.confidence = "low"
        /\ det.stack # NullStack => isValidStack(det.stack)

\* A directory with files, none of them .tsx or .php, and no usable manifest.
C10_Witness ==
    /\ Detected
    /\ probe.listing.ok /\ probe.listing.names = {"notes.txt"}
    /\ Unusable(probe.package)
    /\ det.stack = NullStack

---------------------------------------------------------------------------
(* The format converter specification: one markdown file is written, then  *)
(* converted                                                               *)

\* The lines a markdown file is made of: two level-1 headings, a quote with
\* and one without a space after the mark, a line of text, an empty line
\* and a level-2 heading.
LineShapes ==
    {<<"#", " ", "A">>, <<"#", " ", "B">>, <<">", " ", "p">>, <<">", "q">>,
     <<"text">>, <<>>, <<"#", "#", " ", "S">>, <<"-", "-", "-">>}

\* The characters of the file with the given lines.
RECURSIVE JoinLines(_)
JoinLines(lines) ==
    IF Len(lines) = 1 THEN lines[1]
    ELSE lines[1] \o <<"\n">> \o JoinLines(Tail(lines))

ConvertKinds == {"skill", "agent", "command"}

\* The skill debug and the agent oracle of the project's .ai directory.
ConvSkillsDir == <<"proj", ".ai", "skills">>
ConvAgentsDir == <<"proj", ".ai", "agents">>
ConvInputPath(kind) ==
    IF kind = "agent" THEN Join(ConvAgentsDir, "oracle.md")
    ELSE Join(Join(ConvSkillsDir, "debug"), "SKILL.md")
ConvOutputPath(kind) ==
    CASE kind = "skill" -> <<"proj", ".opencode", "skill", "debug", "SKILL.md">>
      [] kind = "agent" -> <<"proj", ".opencode", "agent", "oracle.md">>
      [] kind = "command" -> <<"proj", ".opencode", "command", "debug.md">>
ConvBaseName(kind) == IF kind = "agent" THEN "oracle" ELSE "debug"

InitConvert ==
    /\ fs = NoFiles
    /\ last = NoCommand
    /\ ncmds = 0
    /\ probe = NoProbe
    /\ det = NoDetection
    /\ installed = "full"
    /\ conv = NoConversion
    /\ tg = NoNotification

\* A markdown file of at most MaxLines lines is written where the converter
\* of the given kind reads it.
Draft ==
    /\ conv = NoConversion
    /\ \E kind \in ConvertKinds : \E n \in 1..MaxLines : \E lines \in [1..n -> LineShapes] :
         /\ conv' = [kind |-> kind, lines |-> lines, done |-> FALSE]
         /\ fs' = MakeFs(ConvInputPath(kind) :> Text(JoinLines(lines)), {})
    /\ UNCHANGED <<last, ncmds, probe, det, installed, tg>>

\* The part of syncOpenCode that converts files of that kind runs.
Convert ==
    /\ conv # NoConversion
    /\ ~conv.done
    /\ \E r \in {CASE conv.kind = "skill" ->
                        convertSkills(Start(fs), ConvSkillsDir, <<"proj", ".opencode", "skill">>)
                   [] conv.kind = "agent" ->
                        convertAgents(Start(fs), ConvAgentsDir, <<"proj", ".opencode", "agent">>)
                   [] conv.kind = "command" ->
                        generateCommands(Start(fs), ConvSkillsDir,
                                         <<"proj", ".opencode", "command">>)} :
         /\ r.ok
         /\ fs' = r.fs
    /\ conv' = [conv EXCEPT !.done = TRUE]
    /\ UNCHANGED <<last, ncmds, probe, det, installed, tg>>

NextConvert == Draft \/ Convert

SpecConvert == InitConvert /\ [][NextConvert]_vars

---------------------------------------------------------------------------
(* Properties of the format converter                                      *)

Converted == conv # NoConversion /\ conv.done

\* The characters of the file the converter wrote.
Document == fs[ConvOutputPath(conv.kind)].c.s

\* The fixed pieces of the header of each kind of file, in order.
HeaderKeys(kind) ==
    CASE kind = "skill" ->
            <<"---\nname: ", "\ndescription: ",
              "\nlicense: MIT\ncompatibility: opencode\nmetadata:\n  source: ai-dev-system\n---\n\n">>
      [] kind = "agent" ->
            <<"---\ndescription: ", "\nmodel: anthropic/claude-sonnet-4-5\n---\n\n">>
      [] kind = "command" ->
            <<"---\ndescription: ", "\nagent: build\n---\n\nLoad and execute the ">>

\* The first position of token t in s.
FirstIndex(s, t) == CHOOSE i \in 1..Len(s) : s[i] = t /\ \A j \in 1..(i - 1) : s[j] # t

\* What stands in s between token a and the next token b.
Between(s, a, b) == SubSeq(s, FirstIndex(s, a) + 1, FirstIndex(s, b) - 1)

\* The header of the file: everything up to its closing piece.
Header == SubSeq(Document, 1, FirstIndex(Document, HeaderKeys(conv.kind)[Len(HeaderKeys(conv.kind))]))

\* The value of the description key of the header, and of the name key of
\* a skill's header.
Description ==
    LET keys == HeaderKeys(conv.kind)
    IN  Between(Document, keys[Len(keys) - 1], keys[Len(keys)])
SkillName == Between(Document, "---\nname: ", "\ndescription: ")

\* The header has the keys of its kind, each once and in order, starting
\* at the first character of the file.
WellFormedHeader ==
    LET keys == HeaderKeys(conv.kind)
        IsKey(t) == t \in Range(keys)
    IN  /\ Document[1] = keys[1]
        /\ SelectSeq(Header, IsKey) = keys

\* A level-1 heading line and its text; a block-quote line and its text.
IsHeading(line) == Len(line) >= 3 /\ line[1] = "#" /\ line[2] = " "
HeadingText(line) == SubSeq(line, 3, Len(line))
IsQuote(line) == Len(line) >= 2 /\ line[1] = ">" /\ (line[2] = " " => Len(line) >= 3)
QuoteText(line) == IF line[2] = " " THEN SubSeq(line, 3, Len(line)) ELSE SubSeq(line, 2, Len(line))

Headings == {i \in 1..Len(conv.lines) : IsHeading(conv.lines[i])}
Quotes == {i \in 1..Len(conv.lines) : IsQuote(conv.lines[i])}
First(S) == CHOOSE i \in S : \A j \in S : i <= j
FirstHeadingText == HeadingText(conv.lines[First(Headings)])
FirstQuoteText == QuoteText(conv.lines[First(Quotes)])

\* s holds t as a run of consecutive characters.
Holds(s, t) == \E i \in 0..(Len(s) - Len(t)) : SubSeq(s, i + 1, i + Len(t)) = t

SkillOrAgent == Converted /\ conv.kind \in {"skill", "agent"}

SeveralCandidates == Converted /\ (Cardinality(Headings) > 1 \/ Cardinality(Quotes) > 1)

Body == SubSeq(Document, Len(Header) + 1, Len(Document))

\* The source begins with a header of its own: a --- line, closed by a
\* later --- line.
SourceHasHeader ==
    /\ Len(conv.lines) >= 3
    /\ conv.lines[1] = <<"-", "-", "-">>
    /\ \E i \in 2..Len(conv.lines) : conv.lines[i] = <<"-", "-", "-">>

\* C21 as stated: what follows the generated header, and the blank line
\* after it, in a converted skill or agent is the source, character for
\* character.
C21_BodyIsSource ==
    SkillOrAgent => WellFormedHeader /\ Body = JoinLines(conv.lines)

\* C21 (amended): what follows the generated header, and the blank line
\* after it, in a converted skill or agent is the source, character for
\* character, a header the source begins with included, and one line
\* break after it.
C21_BodyIsSourceAndLineBreak ==
    SkillOrAgent => WellFormedHeader /\ Body = JoinLines(conv.lines) \o <<"\n">>

\* A skill converted from a source that begins with a header of its own.
C21_Witness ==
    /\ SkillOrAgent /\ conv.kind = "skill"
    /\ SourceHasHeader
    /\ conv.lines = <<<<"-", "-", "-">>, <<"text">>, <<"-", "-", "-">>>>
    /\ Holds(Body, <<"-", "-", "-", "\n", "text", "\n", "-", "-", "-">>)

---------------------------------------------------------------------------
(* skills/notify/scripts/send-telegram.sh: loading the configuration       *)

\* A text is a sequence of characters and words; a file is absent or holds
\* lines of text; the shell variables map each name to a text, empty when
\* the variable is unset or empty.
DQuote == "\""
SQuote == "'"
ShellVars == {"AI_DEV_TG_BOT_TOKEN", "AI_DEV_TG_CHAT_ID", "TELEGRAM_BOT_TOKEN", "TELEGRAM_CHAT_ID"}
AbsentFile == [exists |-> FALSE]
FileOf(lines) == [exists |-> TRUE, lines |-> lines]

\* s without the characters of T (sed 's/["\x27]//g', tr -d ' ').
RECURSIVE Deleting(_, _)
Deleting(s, T) ==
    IF s = <<>> THEN <<>>
    ELSE (IF Head(s) \in T THEN <<>> ELSE <<Head(s)>>) \o Deleting(Tail(s), T)

\* s without its leading spaces (\s*).
RECURSIVE SkipSpaces(_)
SkipSpaces(s) == IF s # <<>> /\ Head(s) = " " THEN SkipSpaces(Tail(s)) ELSE s

\* grep -E '^\s*key' line
GrepKey(line, key) == SkipSpaces(line) # <<>> /\ Head(SkipSpaces(line)) = key

\* sed 's/.*key\s*//': everything through the last key and the spaces
\* after it is removed.
SedKey(line, key) ==
    LET at == {i \in 1..Len(line) : line[i] = key}
    IN  IF at = {} THEN line
        ELSE SkipSpaces(SubSeq(line, (CHOOSE i \in at : \A j \in at : j <= i) + 1, Len(line)))

\* sed 's/\${.*}//': what stands from the first ${ through the last } after
\* it is removed.
SedReference(s) ==
    LET opens == {i \in 1..(Len(s) - 1) : s[i] = "$" /\ s[i + 1] = "{"}
        closes(o) == {j \in (o + 2)..Len(s) : s[j] = "}"}
        starts == {o \in opens : closes(o) # {}}
    IN  IF starts = {} THEN s
        ELSE LET o == CHOOSE i \in starts : \A j \in starts : i <= j
                 c == CHOOSE i \in closes(o) : \A j \in closes(o) : j <= i
             IN  SubSeq(s, 1, o - 1) \o SubSeq(s, c + 1, Len(s))

\* $( ... ) drops the line breaks at the end of what the pipeline printed.
RECURSIVE DropLineBreaks(_)
DropLineBreaks(s) ==
    IF s # <<>> /\ s[Len(s)] = "\n" THEN DropLineBreaks(SubSeq(s, 1, Len(s) - 1)) ELSE s

\* $(grep -E '^\s*key' file | sed 's/.*key\s*//' | sed 's/["\x27]//g'
\*   | sed 's/\${.*}//' | tr -d ' ')
RECURSIVE YamlPipeline(_, _, _)
YamlPipeline(lines, key, i) ==
    IF i > Len(lines) THEN <<>>
    ELSE (IF GrepKey(lines[i], key)
          THEN Deleting(SedReference(Deleting(SedKey(lines[i], key), {DQuote, SQuote})), {" "})
               \o <<"\n">>
          ELSE <<>>)
         \o YamlPipeline(lines, key, i + 1)
YamlValue(lines, key) == DropLineBreaks(YamlPipeline(lines, key, 1))

load_yaml_config(shell, file) ==
    IF ~file.exists THEN shell
    ELSE Bind(IF shell["AI_DEV_TG_BOT_TOKEN"] = <<>>
              THEN [shell EXCEPT !["AI_DEV_TG_BOT_TOKEN"] = YamlValue(file.lines, "bot_token:")]
              ELSE shell,
              LAMBDA s1 :
                  IF s1["AI_DEV_TG_CHAT_ID"] = <<>>
                  THEN [s1 EXCEPT !["AI_DEV_TG_CHAT_ID"] = YamlValue(file.lines, "chat_id:")]
                  ELSE s1)

\* ${value%c} and ${value#c}: one c removed at the end, at the start.
DropLast(s, c) == IF s # <<>> /\ s[Len(s)] = c THEN SubSeq(s, 1, Len(s) - 1) ELSE s
DropFirst(s, c) == IF s # <<>> /\ s[1] = c THEN Tail(s) ELSE s

\* IFS='=' read -r key value: the line is split at its first =.
ReadKey(line) ==
    LET at == {i \in 1..Len(line) : line[i] = "="}
    IN  IF at = {} THEN line
        ELSE SubSeq(line, 1, (CHOOSE i \in at : \A j \in at : i <= j) - 1)
ReadValue(line) ==
    LET at == {i \in 1..Len(line) : line[i] = "="}
    IN  IF at = {} THEN <<>>
        ELSE SubSeq(line, (CHOOSE i \in at : \A j \in at : i <= j) + 1, Len(line))

\* One line of the loop of load_env_file, which exports without looking at
\* what the variable holds.
envLineOverriding(shell, line) ==
    LET key == ReadKey(line)
        value == DropFirst(DropLast(DropFirst(DropLast(ReadValue(line), DQuote), DQuote),
                                    SQuote), SQuote)
    IN  IF key = <<>> \/ key[1] = "#" THEN shell
        ELSE IF Len(key) = 1 /\ key[1] \in ShellVars
        THEN [shell EXCEPT ![key[1]] = value]
        ELSE shell

\* One line of the loop of load_env_file.
envLine(shell, line) ==
    LET key == ReadKey(line)
        value == DropFirst(DropLast(DropFirst(DropLast(ReadValue(line), DQuote), DQuote),
                                    SQuote), SQuote)
    IN  IF key = <<>> \/ key[1] = "#" THEN shell
        ELSE IF Len(key) = 1 /\ key[1] \in ShellVars /\ shell[key[1]] = <<>>
        THEN [shell EXCEPT ![key[1]] = value]
        ELSE shell

RECURSIVE envLoop(_, _, _)
envLoop(shell, lines, i) ==
    IF i > Len(lines) THEN shell
    ELSE Bind(envLine(shell, lines[i]), LAMBDA next : envLoop(next, lines, i + 1))

load_env_file(shell, file) ==
    IF ~file.exists THEN shell ELSE envLoop(shell, file.lines, 1)

\* The TELEGRAM_* variants stand in for the AI_DEV_TG_* variables that are
\* still empty.
TelegramVariants(shell) ==
    Bind(IF shell["AI_DEV_TG_BOT_TOKEN"] = <<>> /\ shell["TELEGRAM_BOT_TOKEN"] # <<>>
         THEN [shell EXCEPT !["AI_DEV_TG_BOT_TOKEN"] = shell["TELEGRAM_BOT_TOKEN"]] ELSE shell,
         LAMBDA s1 :
             IF s1["AI_DEV_TG_CHAT_ID"] = <<>> /\ s1["TELEGRAM_CHAT_ID"] # <<>>
             THEN [s1 EXCEPT !["AI_DEV_TG_CHAT_ID"] = s1["TELEGRAM_CHAT_ID"]] ELSE s1)

\* The script from its first load to the validation: the shell variables it
\* goes on with, and whether it goes on or exits with status 1.
LoadConfiguration(environment, files) ==
    Bind(load_yaml_config(environment, files["project-yaml"]), LAMBDA s1 :
    Bind(load_yaml_config(s1, files["user-yaml"]), LAMBDA s2 :
    Bind(load_env_file(s2, files["project-env"]), LAMBDA s3 :
    Bind(load_env_file(s3, files["user-env"]), LAMBDA s4 :
    Bind(TelegramVariants(s4), LAMBDA s5 :
         [shell |-> s5,
          status |-> IF s5["AI_DEV_TG_BOT_TOKEN"] = <<>> \/ s5["AI_DEV_TG_CHAT_ID"] = <<>>
                     THEN 1 ELSE 0])))))

---------------------------------------------------------------------------
(* The notification specification: an environment and four files are       *)
(* chosen, then send-telegram.sh loads its configuration                   *)

\* The sources in the documented priority, the files among them, and the
\* two settings with their shell variable and their key in a yaml file.
Sources == <<"environment", "project-yaml", "user-yaml", "project-env", "user-env">>
ConfigFiles == {"project-yaml", "user-yaml", "project-env", "user-env"}
Settings == {"bot token", "chat id"}
VarOf(setting) == IF setting = "bot token" THEN "AI_DEV_TG_BOT_TOKEN" ELSE "AI_DEV_TG_CHAT_ID"
VariantOf(setting) == IF setting = "bot token" THEN "TELEGRAM_BOT_TOKEN" ELSE "TELEGRAM_CHAT_ID"
YamlKeyOf(setting) == IF setting = "bot token" THEN "bot_token:" ELSE "chat_id:"

\* The value a source gives a setting: a text no other source gives.
ValueFrom(source, setting) == <<source, "/", setting>>

\* How a file writes a setting: not at all, plainly, in quotes, as a
\* reference to the environment (yaml), with nothing after the = (.env).
Writings(file, setting) ==
    IF setting = "chat id" THEN {"none", "plain"}
    ELSE IF file \in {"project-yaml", "user-yaml"} THEN {"none", "plain", "quoted", "reference"}
    ELSE {"none", "plain", "quoted", "empty"}

\* The line of the file for the setting, written that way.
LineFor(file, setting, writing) ==
    LET value == ValueFrom(file, setting)
    IN  IF file \in {"project-yaml", "user-yaml"}
        THEN CASE writing = "plain" -> <<YamlKeyOf(setting), " ">> \o value
               [] writing = "quoted" ->
                     <<" ", " ", YamlKeyOf(setting), " ", DQuote>> \o value \o <<DQuote>>
               [] writing = "reference" ->
                     <<" ", " ", YamlKeyOf(setting), " ", DQuote, "$", "{", VarOf(setting), "}", DQuote>>
        ELSE CASE writing = "plain" -> <<VarOf(setting), "=">> \o value
               [] writing = "quoted" -> <<VarOf(setting), "=", SQuote>> \o value \o <<SQuote>>
               [] writing = "empty" -> <<VarOf(setting), "=">>

\* The file with a first line that sets nothing and the lines of the
\* settings it writes.
FileFor(file, writings) ==
    LET first == IF file \in {"project-yaml", "user-yaml"} THEN <<"telegram:">>
                 ELSE <<"#", " ", "telegram">>
        line(setting) == IF writings[setting] = "none" THEN <<>>
                         ELSE <<LineFor(file, setting, writings[setting])>>
    IN  FileOf(<<first>> \o line("bot token") \o line("chat id"))

\* The value the source defines for the setting; none when the file is
\* absent, does not write it, or writes a reference or nothing.
Defines(source, present, writings, setting) ==
    IF present /\ writings[setting] \in {"plain", "quoted"} THEN ValueFrom(source, setting)
    ELSE <<>>

InitNotify ==
    /\ fs = NoFiles
    /\ last = NoCommand
    /\ ncmds = 0
    /\ probe = NoProbe
    /\ det = NoDetection
    /\ installed = "full"
    /\ conv = NoConversion
    /\ tg = NoNotification

\* What can be chosen for a file: that it is absent, or how it writes each
\* setting.
FileChoices(file) ==
    {[present |-> FALSE, writings |-> [setting \in Settings |-> "none"]]}
    \cup {[present |-> TRUE, writings |-> w] :
             w \in {v \in [Settings -> {"none", "plain", "quoted", "reference", "empty"}] :
                       \A setting \in Settings : v[setting] \in Writings(file, setting)}}

\* The environment and the four files are chosen.
Configure ==
    /\ tg = NoNotification
    /\ \E inEnv \in SUBSET Settings, variants \in BOOLEAN :
       \E projectYaml \in FileChoices("project-yaml"), userYaml \in FileChoices("user-yaml"),
          projectEnv \in FileChoices("project-env"), userEnv \in FileChoices("user-env") :
         LET choice == [file \in ConfigFiles |->
                           CASE file = "project-yaml" -> projectYaml
                             [] file = "user-yaml" -> userYaml
                             [] file = "project-env" -> projectEnv
                             [] file = "user-env" -> userEnv]
         IN  tg' = [k |-> "configured",
                    environment |->
                        [v \in ShellVars |->
                            IF \E setting \in inEnv : v = VarOf(setting)
                            THEN ValueFrom("environment",
                                           CHOOSE setting \in inEnv : v = VarOf(setting))
                            ELSE IF variants /\ \E setting \in Settings : v = VariantOf(setting)
                            THEN ValueFrom("variant",
                                           CHOOSE setting \in Settings : v = VariantOf(setting))
                            ELSE <<>>],
                    files |-> [file \in ConfigFiles |->
                                  IF choice[file].present
                                  THEN FileFor(file, choice[file].writings) ELSE AbsentFile],
                    defines |->
                        [source \in Range(Sources) |->
                            [setting \in Settings |->
                                IF source = "environment"
                                THEN (IF setting \in inEnv THEN ValueFrom(source, setting)
                                      ELSE <<>>)
                                ELSE Defines(source, choice[source].present,
                                             choice[source].writings, setting)]]]
    /\ UNCHANGED <<fs, last, ncmds, probe, det, installed, conv>>

\* send-telegram.sh runs up to its validation.
Notify ==
    /\ tg # NoNotification /\ tg.k = "configured"
    /\ \E r \in {LoadConfiguration(tg.environment, tg.files)} :
         tg' = [k |-> "loaded", environment |-> tg.environment, files |-> tg.files,
                defines |-> tg.defines, shell |-> r.shell, status |-> r.status]
    /\ UNCHANGED <<fs, last, ncmds, probe, det, installed, conv>>

NextNotify == Configure \/ Notify

SpecNotify == InitNotify /\ [][NextNotify]_vars

---------------------------------------------------------------------------
(* Properties of the configuration of send-telegram.sh                     *)

Loaded == tg # NoNotification /\ tg.k = "loaded"

\* The places in the priority of the sources that define the setting.
Defining(setting) == {i \in 1..Len(Sources) : tg.defines[Sources[i]][setting] # <<>>}

\* C25: the bot token and the chat id the script goes on with are those of
\* the first source, in the order environment, project yaml, user yaml,
\* project .env, user .env, that defines a value for them; the script exits
\* with status 1 exactly when it has no bot token or no chat id.
C25_HighestPriorityWins ==
    Loaded =>
        /\ \A setting \in Settings :
              Defining(setting) # {} =>
                 tg.shell[VarOf(setting)] = tg.defines[Sources[First(Defining(setting))]][setting]
        /\ tg.status = 1 <=>
              \E setting \in Settings :
                 Defining(setting) = {} /\ tg.environment[VariantOf(setting)] = <<>>

\* The environment has no bot token, the project's yaml file refers to the
\* environment, and the user's yaml file and both .env files define one:
\* the script goes on with the one of the user's yaml file.
C25_Witness ==
    /\ Loaded
    /\ Defining("bot token") = {3, 4, 5}
    /\ tg.files["project-yaml"].exists
    /\ tg.shell["AI_DEV_TG_BOT_TOKEN"] = ValueFrom("user-yaml", "bot token")
    /\ tg.status = 0

====
